---------------------------- MODULE Spec2Model ----------------------------
(***************************************************************************)
(* A model of gitready's repository-analysis route                         *)
(* (src/src/app/api/analyze/repos/route.ts, the second, current version of *)
(* the handler, lines 209-693).                                            *)
(*                                                                         *)
(* Strings are sequences of one-character strings, so that split, trim,    *)
(* includes, endsWith and the regular-expression replacements of the code  *)
(* are computed character by character.                                    *)
(***************************************************************************)
EXTENDS Integers, Sequences, FiniteSets, TLC

(***************************************************************************)
(* Bounds of the model                                                     *)
(***************************************************************************)
\* longest text the pure-function specification SpecCompress enumerates
MaxCodeLen == 5

(***************************************************************************)
(* JavaScript string primitives                                            *)
(***************************************************************************)
NL == "\n"

\* String.prototype.trim removes white space and line terminators
TrimChars == {" ", "\t", "\r", "\n"}

\* the character class [ \t] of the replacement regular expression
BlankChars == {" ", "\t"}

\* s.substring(from) with 0-based from
DropFirst(s, n) == SubSeq(s, n + 1, Len(s))

\* s.includes(needle)
Includes(s, needle) ==
    \E i \in 0..(Len(s) - Len(needle)) : \A j \in 1..Len(needle) : s[i + j] = needle[j]

\* s.endsWith(suffix)
EndsWith(s, suffix) ==
    /\ Len(suffix) <= Len(s)
    /\ SubSeq(s, Len(s) - Len(suffix) + 1, Len(s)) = suffix

\* s.indexOf(c) for a single character c; -1 when absent
IndexOf(s, c) ==
    IF \E i \in 1..Len(s) : s[i] = c
    THEN (CHOOSE i \in 1..Len(s) : s[i] = c /\ \A j \in 1..(i - 1) : s[j] # c) - 1
    ELSE -1

\* s.lastIndexOf(c) for a single character c; -1 when absent
LastIndexOf(s, c) ==
    IF \E i \in 1..Len(s) : s[i] = c
    THEN (CHOOSE i \in 1..Len(s) : s[i] = c /\ \A j \in (i + 1)..Len(s) : s[j] # c) - 1
    ELSE -1

\* s.split(sep) for a single character sep: "".split(sep) is [""]
RECURSIVE Split(_, _)
Split(s, sep) ==
    LET i == IndexOf(s, sep)
    IN  IF i < 0 THEN <<s>>
        ELSE <<SubSeq(s, 1, i)>> \o Split(DropFirst(s, i + 1), sep)

\* parts.join(sep) for a single character sep
RECURSIVE Join(_, _)
Join(parts, sep) ==
    IF Len(parts) = 0 THEN <<>>
    ELSE IF Len(parts) = 1 THEN parts[1]
    ELSE parts[1] \o <<sep>> \o Join(Tail(parts), sep)

\* s.trim()
RECURSIVE Trim(_)
Trim(s) ==
    IF Len(s) = 0 THEN s
    ELSE IF s[1] \in TrimChars THEN Trim(Tail(s))
    ELSE IF s[Len(s)] \in TrimChars THEN Trim(SubSeq(s, 1, Len(s) - 1))
    ELSE s

\* s.replace(/[ \t]+/g, ' ')
RECURSIVE CollapseBlanks(_)
CollapseBlanks(s) ==
    IF Len(s) = 0 THEN s
    ELSE IF s[1] \in BlankChars
         THEN IF Len(s) > 1 /\ s[2] \in BlankChars
              THEN CollapseBlanks(Tail(s))
              ELSE <<" ">> \o CollapseBlanks(Tail(s))
         ELSE <<s[1]>> \o CollapseBlanks(Tail(s))

(***************************************************************************)
(* compressCodeWithLineMapping (route.ts 319-346)                          *)
(***************************************************************************)
\* the for loop of lines 329-340; lineMap is keyed by the 0-based compressed
\* line number and holds the 0-based original line index
RECURSIVE compressLoop(_, _, _, _, _)
compressLoop(lines, i, compressedLines, lineMap, compressedLineNum) ==
    IF i >= Len(lines)
    THEN [compressed |-> Join(compressedLines, NL), lineMap |-> lineMap]
    ELSE LET line == lines[i + 1]
         IN  IF Trim(line) = <<>>
             THEN compressLoop(lines, i + 1, compressedLines, lineMap, compressedLineNum)
             ELSE compressLoop(lines, i + 1,
                               Append(compressedLines, Trim(CollapseBlanks(line))),
                               (compressedLineNum :> i) @@ lineMap,
                               compressedLineNum + 1)

\* a slip of the loop: the map records the compressed index instead of i
RECURSIVE compressLoopNoMap(_, _, _, _, _)
compressLoopNoMap(lines, i, compressedLines, lineMap, compressedLineNum) ==
    IF i >= Len(lines)
    THEN [compressed |-> Join(compressedLines, NL), lineMap |-> lineMap]
    ELSE LET line == lines[i + 1]
         IN  IF Trim(line) = <<>>
             THEN compressLoopNoMap(lines, i + 1, compressedLines, lineMap, compressedLineNum)
             ELSE compressLoopNoMap(lines, i + 1,
                               Append(compressedLines, Trim(CollapseBlanks(line))),
                               (compressedLineNum :> compressedLineNum) @@ lineMap,
                               compressedLineNum + 1)

EmptyMap == [k \in {} |-> 0]

compressCodeWithLineMappingNoMap(code) ==
    compressLoopNoMap(Split(code, NL), 0, <<>>, EmptyMap, 0)

compressCodeWithLineMapping(code) ==
    compressLoop(Split(code, NL), 0, <<>>, EmptyMap, 0)

(***************************************************************************)
(* More string primitives                                                  *)
(***************************************************************************)
UpperCase == <<"A", "B", "C", "D", "E", "F", "G", "H", "I", "J", "K", "L", "M", "N", "O", "P", "Q", "R", "S", "T", "U", "V", "W", "X", "Y", "Z">>
LowerCase == <<"a", "b", "c", "d", "e", "f", "g", "h", "i", "j", "k", "l", "m", "n", "o", "p", "q", "r", "s", "t", "u", "v", "w", "x", "y", "z">>

LowerChar(c) ==
    IF \E i \in 1..Len(UpperCase) : UpperCase[i] = c
    THEN LowerCase[CHOOSE i \in 1..Len(UpperCase) : UpperCase[i] = c]
    ELSE c

\* s.toLowerCase()
ToLowerCase(s) == [i \in 1..Len(s) |-> LowerChar(s[i])]

\* the members of a sequence
Range(s) == {s[i] : i \in 1..Len(s)}

\* s.split(sep).filter(Boolean): the non-empty segments
NonEmptyParts(s, sep) == SelectSeq(Split(s, sep), LAMBDA p : p # <<>>)

(***************************************************************************)
(* countTokens (route.ts 291-295)                                          *)
(***************************************************************************)
\* Math.ceil(text.length / 4)
countTokens(text) == (Len(text) + 3) \div 4

(***************************************************************************)
(* filterImportantFiles (route.ts 349-376)                                 *)
(***************************************************************************)
importantExtensions == <<
    <<".", "j", "s">>,
    <<".", "j", "s", "x">>,
    <<".", "t", "s">>,
    <<".", "t", "s", "x">>,
    <<".", "p", "y">>,
    <<".", "r", "b">>,
    <<".", "g", "o">>,
    <<".", "j", "a", "v", "a">>,
    <<".", "p", "h", "p">>,
    <<".", "c">>,
    <<".", "c", "p", "p">>,
    <<".", "h">>,
    <<".", "c", "s">> >>

excludePatterns == <<
    <<"t", "e", "s", "t">>,
    <<"s", "p", "e", "c">>,
    <<".", "t", "e", "s", "t", ".">>,
    <<".", "s", "p", "e", "c", ".">>,
    <<".", "c", "s", "s">>,
    <<".", "s", "c", "s", "s">>,
    <<".", "h", "t", "m", "l">>,
    <<".", "m", "d">>,
    <<".", "j", "s", "o", "n">>,
    <<"R", "E", "A", "D", "M", "E">>,
    <<"p", "a", "c", "k", "a", "g", "e", ".", "j", "s", "o", "n">>,
    <<"p", "a", "c", "k", "a", "g", "e", "-", "l", "o", "c", "k", ".", "j", "s", "o", "n">>,
    <<"y", "a", "r", "n", ".", "l", "o", "c", "k">>,
    <<".", "g", "i", "t", "i", "g", "n", "o", "r", "e">>,
    <<".", "e", "s", "l", "i", "n", "t", "r", "c">>,
    <<".", "p", "r", "e", "t", "t", "i", "e", "r", "r", "c">>,
    <<"t", "s", "c", "o", "n", "f", "i", "g", ".", "j", "s", "o", "n">>,
    <<"j", "e", "s", "t", ".", "c", "o", "n", "f", "i", "g">>,
    <<"c", "y", "p", "r", "e", "s", "s", ".", "c", "o", "n", "f", "i", "g">>,
    <<".", "e", "n", "v">>,
    <<"D", "o", "c", "k", "e", "r", "f", "i", "l", "e">> >>

\* file.substring(file.lastIndexOf('.')).toLowerCase(); substring(-1) is the
\* whole string
ExtensionOf(file) ==
    LET dot == LastIndexOf(file, ".")
    IN  ToLowerCase(DropFirst(file, IF dot < 0 THEN 0 ELSE dot))

\* a slip: the extension is compared as it is written
HasImportantExtensionAsWritten(file) ==
    LET dot == LastIndexOf(file, ".")
    IN  DropFirst(file, IF dot < 0 THEN 0 ELSE dot) \in Range(importantExtensions)

HasImportantExtension(file) == ExtensionOf(file) \in Range(importantExtensions)

IsExcluded(file) ==
    LET fileLower == ToLowerCase(file)
    IN  \E n \in 1..Len(excludePatterns) : Includes(fileLower, excludePatterns[n])

filterImportantFiles(files) ==
    LET codeFiles == SelectSeq(files, HasImportantExtension)
    IN  SelectSeq(codeFiles, LAMBDA file : ~IsExcluded(file))

(***************************************************************************)
(* getLanguageFromFilename (route.ts 666-693)                              *)
(***************************************************************************)
languageExtensions == <<
    <<"j", "s">>,
    <<"j", "s", "x">>,
    <<"t", "s">>,
    <<"t", "s", "x">>,
    <<"p", "y">>,
    <<"r", "b">>,
    <<"g", "o">>,
    <<"j", "a", "v", "a">>,
    <<"p", "h", "p">>,
    <<"c">>,
    <<"c", "p", "p">>,
    <<"c", "s">>,
    <<"h", "t", "m", "l">>,
    <<"c", "s", "s">>,
    <<"j", "s", "o", "n">>,
    <<"m", "d">>,
    <<"y", "m", "l">>,
    <<"y", "a", "m", "l">>,
    <<"s", "h">>,
    <<"r", "s">> >>

languageNames == <<
    <<"j", "a", "v", "a", "s", "c", "r", "i", "p", "t">>,
    <<"j", "s", "x">>,
    <<"t", "y", "p", "e", "s", "c", "r", "i", "p", "t">>,
    <<"t", "s", "x">>,
    <<"p", "y", "t", "h", "o", "n">>,
    <<"r", "u", "b", "y">>,
    <<"g", "o">>,
    <<"j", "a", "v", "a">>,
    <<"p", "h", "p">>,
    <<"c">>,
    <<"c", "p", "p">>,
    <<"c", "s", "h", "a", "r", "p">>,
    <<"h", "t", "m", "l">>,
    <<"c", "s", "s">>,
    <<"j", "s", "o", "n">>,
    <<"m", "a", "r", "k", "d", "o", "w", "n">>,
    <<"y", "a", "m", "l">>,
    <<"y", "a", "m", "l">>,
    <<"b", "a", "s", "h">>,
    <<"r", "u", "s", "t">> >>

getLanguageFromFilename(filename) ==
    LET parts == Split(filename, ".")
        extension == ToLowerCase(parts[Len(parts)])
    IN  IF extension # <<>> /\ \E i \in 1..Len(languageExtensions) : languageExtensions[i] = extension
        THEN languageNames[CHOOSE i \in 1..Len(languageExtensions) : languageExtensions[i] = extension]
        ELSE <<"p", "l", "a", "i", "n", "t", "e", "x", "t">>

(***************************************************************************)
(* new URL(url): the WHATWG parser on absolute URLs of the forms            *)
(* scheme://[userinfo@]host[:port][/path][?query][#fragment] and            *)
(* scheme:opaque-path.  A string without a scheme has no base URL to        *)
(* resolve against and does not parse.                                      *)
(***************************************************************************)
Letters == Range(UpperCase) \cup Range(LowerCase)
Digits == <<"0", "1", "2", "3", "4", "5", "6", "7", "8", "9">>
SchemeChars == Letters \cup Range(Digits) \cup {"+", "-", "."}
SpecialSchemes == {<<"h", "t", "t", "p">>, <<"h", "t", "t", "p", "s">>, <<"f", "t", "p">>, <<"w", "s">>, <<"w", "s", "s">>}

\* 0-based index of the first character of s that is in stops; Len(s) if none
FirstOf(s, stops) ==
    IF \E i \in 1..Len(s) : s[i] \in stops
    THEN (CHOOSE i \in 1..Len(s) : s[i] \in stops /\ \A j \in 1..(i - 1) : s[j] \notin stops) - 1
    ELSE Len(s)

RECURSIVE StripLeading(_, _)
StripLeading(s, chars) ==
    IF Len(s) > 0 /\ s[1] \in chars THEN StripLeading(Tail(s), chars) ELSE s

URLFailure == [ok |-> FALSE, hostname |-> <<>>, pathname |-> <<>>]

\* host and path of "authority/path?query#fragment"
URLAuthorityAndPath(s, special) ==
    LET authority == SubSeq(s, 1, FirstOf(s, {"/", "?", "#"}))
        afterAuth == DropFirst(s, Len(authority))
        at == LastIndexOf(authority, "@")
        hostport == DropFirst(authority, at + 1)
        host == SubSeq(hostport, 1, FirstOf(hostport, {":"}))
        path == SubSeq(afterAuth, 1, FirstOf(afterAuth, {"?", "#"}))
    IN  IF special /\ host = <<>> THEN URLFailure
        ELSE [ok |-> TRUE,
              hostname |-> IF special THEN ToLowerCase(host) ELSE host,
              pathname |-> IF special /\ path = <<>> THEN <<"/">> ELSE path]

URLParse(input) ==
    LET s == Trim(input)
        colon == IndexOf(s, ":")
    IN  IF \/ colon < 1
           \/ s[1] \notin Letters
           \/ \E i \in 1..colon : s[i] \notin SchemeChars
        THEN URLFailure
        ELSE LET scheme == ToLowerCase(SubSeq(s, 1, colon))
                 rest == DropFirst(s, colon + 1)
             IN  IF scheme \in SpecialSchemes
                 THEN URLAuthorityAndPath(StripLeading(rest, {"/"}), TRUE)
                 ELSE IF Len(rest) >= 2 /\ rest[1] = "/" /\ rest[2] = "/"
                 THEN URLAuthorityAndPath(DropFirst(rest, 2), FALSE)
                 ELSE [ok |-> TRUE, hostname |-> <<>>,
                       pathname |-> SubSeq(rest, 1, FirstOf(rest, {"?", "#"}))]

(***************************************************************************)
(* extractRepoInfo (route.ts 222-241)                                      *)
(***************************************************************************)
GitHubHost == <<"g", "i", "t", "h", "u", "b", ".", "c", "o", "m">>

\* a slip: owner and repo are the last two segments of the path
extractRepoInfoLastTwo(url) ==
    LET urlObj == URLParse(url)
        parts == NonEmptyParts(urlObj.pathname, "/")
    IN  IF ~urlObj.ok THEN [ok |-> FALSE, message |-> "Invalid GitHub URL"]
        ELSE IF ~Includes(urlObj.hostname, GitHubHost)
        THEN [ok |-> FALSE, message |-> "Invalid GitHub URL"]
        ELSE IF Len(parts) < 2
        THEN [ok |-> FALSE, message |-> "Invalid GitHub URL"]
        ELSE [ok |-> TRUE, owner |-> parts[Len(parts) - 1], repo |-> parts[Len(parts)]]

\* a slip: the hostname is not looked at
extractRepoInfoAnyHost(url) ==
    LET urlObj == URLParse(url)
        parts == NonEmptyParts(urlObj.pathname, "/")
    IN  IF ~urlObj.ok THEN [ok |-> FALSE, message |-> "Invalid GitHub URL"]
        ELSE IF Len(parts) < 2
        THEN [ok |-> FALSE, message |-> "Invalid GitHub URL"]
        ELSE [ok |-> TRUE, owner |-> parts[1], repo |-> parts[2]]

\* every throw inside the try block is replaced by Error('Invalid GitHub URL')
extractRepoInfo(url) ==
    LET urlObj == URLParse(url)
        parts == NonEmptyParts(urlObj.pathname, "/")
    IN  IF ~urlObj.ok THEN [ok |-> FALSE, message |-> "Invalid GitHub URL"]
        ELSE IF ~Includes(urlObj.hostname, GitHubHost)
        THEN [ok |-> FALSE, message |-> "Invalid GitHub URL"]
        ELSE IF Len(parts) < 2
        THEN [ok |-> FALSE, message |-> "Invalid GitHub URL"]
        ELSE [ok |-> TRUE, owner |-> parts[1], repo |-> parts[2]]

(***************************************************************************)
(* JavaScript values, tagged by type                                       *)
(***************************************************************************)
Undefined == [t |-> "undefined"]
Null == [t |-> "null"]
Num(n) == [t |-> "num", v |-> n]
Str(s) == [t |-> "str", v |-> s]
Arr(a) == [t |-> "arr", v |-> a]
\* a string whose characters the code never inspects (a title, a comment, a
\* language name, an error message), held as one TLA+ string
Text(s) == [t |-> "text", v |-> s]
Obj(f) == [t |-> "obj", v |-> f]

IsNullish(v) == v.t \in {"null", "undefined"}

\* the truthiness an if or || tests
Truthy(v) ==
    CASE v.t \in {"null", "undefined"} -> FALSE
      [] v.t = "num" -> v.v # 0
      [] v.t = "str" -> v.v # <<>>
      [] v.t = "text" -> v.v # ""
      [] OTHER -> TRUE

\* v.name for a value that is not null or undefined (those throw a TypeError)
Prop(v, name) ==
    IF v.t = "obj" /\ name \in DOMAIN v.v THEN v.v[name] ELSE Undefined

\* {...v} for an object or a number (a number has no own properties)
Spread(v) == IF v.t = "obj" THEN v.v ELSE [k \in {} |-> Null]

RECURSIVE NatToChars(_)
NatToChars(n) ==
    IF n < 10 THEN <<Digits[n + 1]>>
    ELSE NatToChars(n \div 10) \o <<Digits[(n % 10) + 1]>>

NumToChars(n) == IF n < 0 THEN <<"-">> \o NatToChars(0 - n) ELSE NatToChars(n)

\* ToString(v), as endsWith, new URL and property keys apply it
RECURSIVE ToStr(_)
ToStr(v) ==
    CASE v.t = "str" -> v.v
      [] v.t = "text" -> <<v.v>>
      [] v.t = "num" -> NumToChars(v.v)
      [] v.t = "null" -> <<"n", "u", "l", "l">>
      [] v.t = "undefined" -> <<"u", "n", "d", "e", "f", "i", "n", "e", "d">>
      [] v.t = "arr" ->
            Join([i \in 1..Len(v.v) |-> IF IsNullish(v.v[i]) THEN <<>> ELSE ToStr(v.v[i])], ",")
      [] OTHER -> <<"[", "o", "b", "j", "e", "c", "t", " ", "O", "b", "j", "e", "c", "t", "]">>

\* the outcome of a computation that may throw
Ok(val) == [ok |-> TRUE, val |-> val]
Thrown == [ok |-> FALSE]

\* a.map(F) where an F that throws ends the map
MapResults(a, F(_)) ==
    IF \E i \in 1..Len(a) : ~F(a[i]).ok THEN Thrown
    ELSE Ok([i \in 1..Len(a) |-> F(a[i]).val])

(***************************************************************************)
(* JSON text.  A text is a sequence of tokens: the structural characters,  *)
(* member keys ("name":), string literals (with their characters), numbers,*)
(* null, and prose (words that are no JSON).  White space is not           *)
(* tokenised, so trim() changes nothing.  Bracket characters outside       *)
(* string literals are always tokens of their own.                         *)
(***************************************************************************)
TokOpenArr == [k |-> "["]
TokCloseArr == [k |-> "]"]
TokOpenObj == [k |-> "{"]
TokCloseObj == [k |-> "}"]
TokComma == [k |-> ","]
TokNull == [k |-> "null"]
TokProse == [k |-> "prose"]
TokFragment == [k |-> "fragment"]
TokNum(n) == [k |-> "num", v |-> n]
TokStr(s) == [k |-> "str", v |-> s]
TokKey(name) == [k |-> "key", v |-> name]
TokText(s) == [k |-> "text", v |-> s]

ParseFailure == [ok |-> FALSE, pos |-> 0]
Parsed(val, pos) == [ok |-> TRUE, val |-> val, pos |-> pos]

\* JSON.parse: one value starting at token i; pos is the token after it
RECURSIVE ParseValue(_, _)
RECURSIVE ParseElements(_, _, _)
RECURSIVE ParseMembers(_, _, _)
ParseValue(toks, i) ==
    IF i > Len(toks) THEN ParseFailure
    ELSE CASE toks[i].k = "null" -> Parsed(Null, i + 1)
           [] toks[i].k = "num" -> Parsed(Num(toks[i].v), i + 1)
           [] toks[i].k = "str" -> Parsed(Str(toks[i].v), i + 1)
           [] toks[i].k = "text" -> Parsed(Text(toks[i].v), i + 1)
           [] toks[i].k = "[" ->
                 IF i < Len(toks) /\ toks[i + 1].k = "]"
                 THEN Parsed(Arr(<<>>), i + 2)
                 ELSE ParseElements(toks, i + 1, <<>>)
           [] toks[i].k = "{" ->
                 IF i < Len(toks) /\ toks[i + 1].k = "}"
                 THEN Parsed(Obj([k \in {} |-> Null]), i + 2)
                 ELSE ParseMembers(toks, i + 1, [k \in {} |-> Null])
           [] OTHER -> ParseFailure

ParseElements(toks, i, acc) ==
    LET r == ParseValue(toks, i)
    IN  IF ~r.ok \/ r.pos > Len(toks) THEN ParseFailure
        ELSE IF toks[r.pos].k = "," THEN ParseElements(toks, r.pos + 1, Append(acc, r.val))
        ELSE IF toks[r.pos].k = "]" THEN Parsed(Arr(Append(acc, r.val)), r.pos + 1)
        ELSE ParseFailure

\* a later member of the same name replaces an earlier one
ParseMembers(toks, i, acc) ==
    IF i > Len(toks) \/ toks[i].k # "key" THEN ParseFailure
    ELSE LET r == ParseValue(toks, i + 1)
         IN  IF ~r.ok \/ r.pos > Len(toks) THEN ParseFailure
             ELSE IF toks[r.pos].k = ","
             THEN ParseMembers(toks, r.pos + 1, (toks[i].v :> r.val) @@ acc)
             ELSE IF toks[r.pos].k = "}"
             THEN Parsed(Obj((toks[i].v :> r.val) @@ acc), r.pos + 1)
             ELSE ParseFailure

\* JSON.parse(text): the whole text must be one value
JSONParse(toks) ==
    LET r == ParseValue(toks, 1)
    IN  IF r.ok /\ r.pos = Len(toks) + 1 THEN Ok(r.val) ELSE Thrown

\* the order in which JSON.stringify writes the members the model uses
MemberOrder ==
    <<"title", "content", "code", "filename", "language", "annotations",
      "line", "comment", "url", "error">>

\* JSON.stringify: undefined members are left out, undefined elements are null
RECURSIVE Stringify(_)
RECURSIVE StringifyAll(_, _)
StringifyAll(parts, i) ==
    IF i > Len(parts) THEN <<>>
    ELSE parts[i] \o (IF i < Len(parts) THEN <<TokComma>> ELSE <<>>)
                  \o StringifyAll(parts, i + 1)

Stringify(v) ==
    CASE v.t = "null" -> <<TokNull>>
      [] v.t = "undefined" -> <<TokNull>>
      [] v.t = "num" -> <<TokNum(v.v)>>
      [] v.t = "str" -> <<TokStr(v.v)>>
      [] v.t = "text" -> <<TokText(v.v)>>
      [] v.t = "arr" ->
            <<TokOpenArr>>
            \o StringifyAll([i \in 1..Len(v.v) |-> Stringify(v.v[i])], 1)
            \o <<TokCloseArr>>
      [] OTHER ->
            LET names == SelectSeq(MemberOrder,
                             LAMBDA n : n \in DOMAIN v.v /\ v.v[n].t # "undefined")
            IN  <<TokOpenObj>>
                \o StringifyAll([i \in 1..Len(names) |->
                                    <<TokKey(names[i])>> \o Stringify(v.v[names[i]])], 1)
                \o <<TokCloseObj>>

\* the value a client reads from NextResponse.json(v)
Serialized(v) == JSONParse(Stringify(v)).val

(***************************************************************************)
(* Merging the model's answer with the fetched files (route.ts 554-588,    *)
(* repeated at 605-639).  A file entry is                                  *)
(* [path, content, compressed, lineMap] (lines 412-417).                   *)
(***************************************************************************)
\* the key k of lineMap with lineMap[line] defined: a property key is the
\* string form of the subscript
LineKeys(lineMap, line) == {k \in DOMAIN lineMap : NumToChars(k) = ToStr(line)}

\* lines 564-574
mapAnnotation(originalFile, annotation) ==
    IF IsNullish(annotation) THEN Thrown
    ELSE LET line == Prop(annotation, "line")
             keys == LineKeys(originalFile.lineMap, line)
             originalLineNumber ==
                 IF keys # {}
                 THEN Num(originalFile.lineMap[CHOOSE k \in keys : TRUE] + 1)
                 ELSE line
         IN  Ok(Obj(("line" :> originalLineNumber) @@ Spread(annotation)))

\* the predicate of validFiles.find, lines 558-559
MatchesFile(file, codeItem) ==
    LET filename == Prop(codeItem, "filename")
    IN  \/ filename.t = "str" /\ filename.v = file.path
        \/ EndsWith(file.path, ToStr(filename))

\* index in validFiles of the file find returns; 0 when it returns undefined
FindOriginalFile(validFiles, codeItem) ==
    IF \E i \in 1..Len(validFiles) : MatchesFile(validFiles[i], codeItem)
    THEN CHOOSE i \in 1..Len(validFiles) :
            /\ MatchesFile(validFiles[i], codeItem)
            /\ \A j \in 1..(i - 1) : ~MatchesFile(validFiles[j], codeItem)
    ELSE 0

\* lines 577-582
WithContent(originalFile, codeItem, members) ==
    LET language == Prop(codeItem, "language")
    IN  Obj(("content" :> Str(originalFile.content))
            @@ ("language" :> IF Truthy(language) THEN language
                              ELSE Str(getLanguageFromFilename(originalFile.path)))
            @@ members)

\* lines 556-585; find calls its predicate only when validFiles is not empty
mapCodeItem(validFiles, codeItem) ==
    IF validFiles # <<>> /\ IsNullish(codeItem) THEN Thrown
    ELSE LET idx == FindOriginalFile(validFiles, codeItem)
             annotations == Prop(codeItem, "annotations")
         IN  IF idx = 0 THEN Ok(codeItem)
             ELSE IF ~Truthy(annotations)
             THEN Ok(WithContent(validFiles[idx], codeItem, Spread(codeItem)))
             ELSE IF annotations.t # "arr" THEN Thrown
             ELSE LET mapped == MapResults(annotations.v,
                                    LAMBDA a : mapAnnotation(validFiles[idx], a))
                  IN  IF ~mapped.ok THEN Thrown
                      ELSE Ok(WithContent(validFiles[idx], codeItem,
                                 ("annotations" :> Arr(mapped.val)) @@ Spread(codeItem)))

\* lines 554-588
mapSection(validFiles, section) ==
    IF IsNullish(section) THEN Thrown
    ELSE LET code == Prop(section, "code")
         IN  IF ~Truthy(code) THEN Ok(section)
             ELSE IF code.t # "arr" THEN Thrown
             ELSE LET mapped == MapResults(code.v, LAMBDA c : mapCodeItem(validFiles, c))
                  IN  IF ~mapped.ok THEN Thrown
                      ELSE Ok(Obj(("code" :> Arr(mapped.val)) @@ Spread(section)))

\* a slip: a JSON value that is no array is returned as it is
processResponseAnyValue(validFiles, jsonResponse) ==
    IF jsonResponse.t # "arr" THEN Ok(jsonResponse)
    ELSE LET mapped == MapResults(jsonResponse.v, LAMBDA sec : mapSection(validFiles, sec))
         IN  IF ~mapped.ok THEN Thrown ELSE Ok(Arr(mapped.val))

\* jsonResponse.map(...): a TypeError unless jsonResponse is an array
processResponse(validFiles, jsonResponse) ==
    IF jsonResponse.t # "arr" THEN Thrown
    ELSE LET mapped == MapResults(jsonResponse.v, LAMBDA sec : mapSection(validFiles, sec))
         IN  IF ~mapped.ok THEN Thrown ELSE Ok(Arr(mapped.val))

(***************************************************************************)
(* Parsing the model's text (route.ts 547-655)                             *)
(***************************************************************************)
\* whether the text of token tok holds character c ('[' or ']')
HoldsChar(tok, c) == tok.k = c \/ (tok.k = "str" /\ c \in Range(tok.v))

\* text.substring(jsonStartIndex, jsonEndIndex) for the first '[' in token i
\* and the last ']' in token j: a string literal cut in two is a fragment
CutText(text, i, j) ==
    [n \in 1..(j - i + 1) |->
        IF (n = 1 /\ text[i].k = "str") \/ (n = j - i + 1 /\ text[j].k = "str")
        THEN TokFragment
        ELSE text[i + n - 1]]

ParsingErrorSection ==
    Obj([title |-> Text("Parsing Error"),
         content |-> Text("Unable to parse the AI analysis. This sometimes happens with complex codebases. Please try again or try with a different repository."),
         code |-> Null])

\* a NextResponse.json(body, {status}); the default status is 200
Response(status, body) == [status |-> status, body |-> Serialized(body)]

ErrorBody(message) == Obj([error |-> Text(message)])

\* a slip: the array extracted is returned without the files' contents
processParsedJsonAsIs(validFiles, parsedJson) ==
    IF parsedJson.t # "arr" THEN Thrown ELSE Ok(parsedJson)

\* lines 605-640: the copy of the processing in the catch block, translated
\* from its own lines
processParsedJson(validFiles, parsedJson) ==
    LET \* lines 617-627
        annotationOf(originalFile, annotation) ==
            IF IsNullish(annotation) THEN Thrown
            ELSE LET keys == {k \in DOMAIN originalFile.lineMap :
                                 NumToChars(k) = ToStr(Prop(annotation, "line"))}
                 IN  Ok(Obj(("line" :> IF keys # {}
                                       THEN Num(originalFile.lineMap[CHOOSE k \in keys : TRUE] + 1)
                                       ELSE Prop(annotation, "line"))
                            @@ Spread(annotation)))
        \* lines 610-611
        found(codeItem) ==
            {i \in 1..Len(validFiles) :
                \/ /\ Prop(codeItem, "filename").t = "str"
                   /\ Prop(codeItem, "filename").v = validFiles[i].path
                \/ EndsWith(validFiles[i].path, ToStr(Prop(codeItem, "filename")))}
        \* lines 630-634
        withContent(originalFile, codeItem, members) ==
            Obj(("content" :> Str(originalFile.content))
                @@ ("language" :> IF Truthy(Prop(codeItem, "language"))
                                  THEN Prop(codeItem, "language")
                                  ELSE Str(getLanguageFromFilename(originalFile.path)))
                @@ members)
        \* lines 608-637
        codeItemOf(codeItem) ==
            IF validFiles # <<>> /\ IsNullish(codeItem) THEN Thrown
            ELSE IF found(codeItem) = {} THEN Ok(codeItem)
            ELSE LET originalFile ==
                         validFiles[CHOOSE i \in found(codeItem) :
                                        \A j \in found(codeItem) : i <= j]
                     annotations == Prop(codeItem, "annotations")
                 IN  IF ~Truthy(annotations)
                     THEN Ok(withContent(originalFile, codeItem, Spread(codeItem)))
                     ELSE IF annotations.t # "arr" THEN Thrown
                     ELSE LET mapped == MapResults(annotations.v,
                                            LAMBDA a : annotationOf(originalFile, a))
                          IN  IF ~mapped.ok THEN Thrown
                              ELSE Ok(withContent(originalFile, codeItem,
                                         ("annotations" :> Arr(mapped.val))
                                         @@ Spread(codeItem)))
        \* lines 606-640
        sectionOf(section) ==
            IF IsNullish(section) THEN Thrown
            ELSE IF ~Truthy(Prop(section, "code")) THEN Ok(section)
            ELSE IF Prop(section, "code").t # "arr" THEN Thrown
            ELSE LET mapped == MapResults(Prop(section, "code").v, codeItemOf)
                 IN  IF ~mapped.ok THEN Thrown
                     ELSE Ok(Obj(("code" :> Arr(mapped.val)) @@ Spread(section)))
    IN  IF parsedJson.t # "arr" THEN Thrown
        ELSE LET mapped == MapResults(parsedJson.v, sectionOf)
             IN  IF ~mapped.ok THEN Thrown ELSE Ok(Arr(mapped.val))

\* lines 596-602: JSON.parse of the text from the first '[' to the last ']';
\* thrown when there is no such text or it is no JSON
extractJson(text) ==
    LET opens == {i \in 1..Len(text) : HoldsChar(text[i], "[")}
        closes == {j \in 1..Len(text) : HoldsChar(text[j], "]")}
        i == CHOOSE x \in opens : \A y \in opens : x <= y
        j == CHOOSE x \in closes : \A y \in closes : y <= x
        \* jsonStartIndex >= 0 && jsonEndIndex > jsonStartIndex
        found == /\ opens # {}
                 /\ closes # {}
                 /\ \/ i < j
                    \/ /\ i = j
                       /\ LastIndexOf(text[i].v, "]") + 1 > IndexOf(text[i].v, "[")
    IN  IF found THEN JSONParse(CutText(text, i, j)) ELSE Thrown

\* what the earlier version of the route did (lines 193-195)
extractAndRespondError(validFiles, text) ==
    LET parsedJson == extractJson(text)
        processed == processResponse(validFiles, parsedJson.val)
    IN  IF parsedJson.ok /\ processed.ok
        THEN Response(200, processed.val)
        ELSE Response(500, ErrorBody("Failed to parse Claude response"))

\* lines 594-654: the catch block of the direct parse
extractAndRespond(validFiles, text) ==
    LET parsedJson == extractJson(text)
        processed == processParsedJson(validFiles, parsedJson.val)
    IN  IF parsedJson.ok /\ processed.ok
        THEN Response(200, processed.val)
        ELSE Response(200, Arr(<<ParsingErrorSection>>))

\* lines 547-655
respondToText(validFiles, text) ==
    LET jsonResponse == JSONParse(text)
        processed == processResponse(validFiles, jsonResponse.val)
    IN  IF jsonResponse.ok /\ processed.ok
        THEN Response(200, processed.val)
        ELSE extractAndRespond(validFiles, text)

(***************************************************************************)
(* Token budget (route.ts 424-452)                                         *)
(***************************************************************************)
CLAUDE_TOKEN_LIMIT == 200000
TOKEN_BUFFER == 20000
MAX_AVAILABLE_TOKENS == CLAUDE_TOKEN_LIMIT - TOKEN_BUFFER
\* importantFiles.length < 3 (line 397)
MinImportantFiles == 3
\* validFiles.length > 3 (line 443)
MinBudgetFiles == 3
\* importantFiles.slice(0, 7) (line 404)
MaxFilesToAnalyze == 7

\* lines 430-433
RECURSIVE SumTokens(_)
SumTokens(files) ==
    IF files = <<>> THEN 0 ELSE countTokens(files[1].compressed) + SumTokens(Tail(files))

\* Array.prototype.sort with (a, b) => countTokens(b) - countTokens(a): stable,
\* largest first (line 440)
RECURSIVE InsertBySize(_, _)
InsertBySize(sorted, file) ==
    IF sorted = <<>> THEN <<file>>
    ELSE IF countTokens(sorted[1].compressed) >= countTokens(file.compressed)
    THEN <<sorted[1]>> \o InsertBySize(Tail(sorted), file)
    ELSE <<file>> \o sorted

RECURSIVE SortBySize(_)
SortBySize(files) ==
    IF files = <<>> THEN <<>>
    ELSE InsertBySize(SortBySize(SubSeq(files, 1, Len(files) - 1)), files[Len(files)])

\* the while loop of lines 443-449: pop the last file
RECURSIVE removeFiles(_, _)
removeFiles(validFiles, totalTokens) ==
    IF totalTokens > MAX_AVAILABLE_TOKENS /\ Len(validFiles) > MinBudgetFiles
    THEN removeFiles(SubSeq(validFiles, 1, Len(validFiles) - 1),
                     totalTokens - countTokens(validFiles[Len(validFiles)].compressed))
    ELSE [validFiles |-> validFiles, totalTokens |-> totalTokens]

\* the condition of the while loop, line 443
loopContinues(validFiles, totalTokens) ==
    totalTokens > MAX_AVAILABLE_TOKENS /\ Len(validFiles) > MinBudgetFiles

\* a slip: shift() instead of pop(), the first file is removed
removeOneShift(validFiles, totalTokens) ==
    [validFiles |-> Tail(validFiles),
     totalTokens |-> totalTokens - countTokens(validFiles[1].compressed),
     removedFile |-> validFiles[1]]

\* a slip: the count of the removed file is not subtracted
removeOneNoCount(validFiles, totalTokens) ==
    [validFiles |-> SubSeq(validFiles, 1, Len(validFiles) - 1),
     totalTokens |-> totalTokens,
     removedFile |-> validFiles[Len(validFiles)]]

\* one iteration of the while loop, lines 444-448
removeOne(validFiles, totalTokens) ==
    [validFiles |-> SubSeq(validFiles, 1, Len(validFiles) - 1),
     totalTokens |-> totalTokens - countTokens(validFiles[Len(validFiles)].compressed),
     removedFile |-> validFiles[Len(validFiles)]]

\* lines 429-452
applyTokenBudget(validFiles) ==
    IF SumTokens(validFiles) > MAX_AVAILABLE_TOKENS
    THEN removeFiles(SortBySize(validFiles), SumTokens(validFiles))
    ELSE [validFiles |-> validFiles, totalTokens |-> SumTokens(validFiles)]

(***************************************************************************)
(* The world outside the route: what GitHub holds                          *)
(***************************************************************************)
OwnerO == <<"o">>
RepoR == <<"r">>
RepoS == <<"s">>
RepoB == <<"b">>

\* data.tree of GET /repos/o/<repo>/git/trees/<branch>?recursive=1
TreeR == <<
    [path |-> <<"s", "r", "c">>, type |-> "tree"],
    [path |-> <<"a", ".", "t", "s">>, type |-> "blob"],
    [path |-> <<"l", "i", "b", "/", "b", ".", "j", "s">>, type |-> "blob"],
    [path |-> <<"b", ".", "j", "s">>, type |-> "blob"],
    [path |-> <<"c", ".", "p", "y">>, type |-> "blob"],
    [path |-> <<"d", ".", "g", "o">>, type |-> "blob"],
    [path |-> <<"R", "E", "A", "D", "M", "E", ".", "m", "d">>, type |-> "blob"],
    [path |-> <<"n", "o", "d", "e", "_", "m", "o", "d", "u", "l", "e", "s", "/", "x", ".", "j", "s">>, type |-> "blob"],
    [path |-> <<"a", ".", "t", "e", "s", "t", ".", "t", "s">>, type |-> "blob"] >>

TreeS == <<
    [path |-> <<"a", ".", "t", "s">>, type |-> "blob"],
    [path |-> <<"b", ".", "j", "s">>, type |-> "blob"],
    [path |-> <<"R", "E", "A", "D", "M", "E", ".", "m", "d">>, type |-> "blob"],
    [path |-> <<"x", ".", "c", "s", "s">>, type |-> "blob"],
    [path |-> <<".", "g", "i", "t", "/", "c", ".", "j", "s">>, type |-> "blob"] >>

TreeB == <<
    [path |-> <<"f", "1", ".", "c">>, type |-> "blob"],
    [path |-> <<"f", "2", ".", "c">>, type |-> "blob"],
    [path |-> <<"f", "3", ".", "c">>, type |-> "blob"],
    [path |-> <<"f", "4", ".", "c">>, type |-> "blob"],
    [path |-> <<"f", "5", ".", "c">>, type |-> "blob"],
    [path |-> <<"f", "6", ".", "c">>, type |-> "blob"],
    [path |-> <<"f", "7", ".", "c">>, type |-> "blob"],
    [path |-> <<"f", "8", ".", "c">>, type |-> "blob"],
    [path |-> <<"f", "9", ".", "c">>, type |-> "blob"] >>

KnownRepo(owner, repo) == owner = OwnerO /\ repo \in {RepoR, RepoS, RepoB}

TreeOf(repo) == IF repo = RepoR THEN TreeR ELSE IF repo = RepoS THEN TreeS ELSE TreeB

\* the blobs; a blob of encoding "none" is too large for the contents API,
\* which then gives only its download_url
Blobs == <<
    [path |-> <<"a", ".", "t", "s">>,
     content |-> <<"a", "\n", "\n", "b">>, encoding |-> "base64"],
    [path |-> <<"l", "i", "b", "/", "b", ".", "j", "s">>,
     content |-> <<" ", "a", "\n", " ", "\n", "\n", " ", "b", " ", " ", "c", "\n">>, encoding |-> "base64"],
    [path |-> <<"b", ".", "j", "s">>,
     content |-> <<"a">>, encoding |-> "none",
     error |-> "Request failed with status code 404"],
    [path |-> <<"c", ".", "p", "y">>,
     content |-> <<>>, encoding |-> "base64"],
    [path |-> <<"d", ".", "g", "o">>,
     content |-> <<"a", "\n", "b", "\n", "c">>, encoding |-> "none",
     error |-> "Network Error"],
    [path |-> <<"f", "1", ".", "c">>,
     content |-> <<"a">>, encoding |-> "base64"],
    [path |-> <<"f", "2", ".", "c">>,
     content |-> <<"a">>, encoding |-> "base64"],
    [path |-> <<"f", "3", ".", "c">>,
     content |-> <<"a">>, encoding |-> "base64"],
    [path |-> <<"f", "4", ".", "c">>,
     content |-> <<"a">>, encoding |-> "base64"],
    [path |-> <<"f", "5", ".", "c">>,
     content |-> <<"a">>, encoding |-> "base64"],
    [path |-> <<"f", "6", ".", "c">>,
     content |-> <<"a">>, encoding |-> "base64"],
    [path |-> <<"f", "7", ".", "c">>,
     content |-> <<"a">>, encoding |-> "base64"],
    [path |-> <<"f", "8", ".", "c">>,
     content |-> <<"a">>, encoding |-> "base64"],
    [path |-> <<"f", "9", ".", "c">>,
     content |-> <<"a">>, encoding |-> "base64"] >>

BlobOf(path) == Blobs[CHOOSE i \in 1..Len(Blobs) : Blobs[i].path = path]

(***************************************************************************)
(* State                                                                   *)
(***************************************************************************)
VARIABLES
    fn,             \* pure-function specifications: the function applied, "" before
    fin,            \* its input
    fout,           \* its result
    pc,             \* where the POST handler is: "start", "treeMain", "treeMaster",
                    \* "fetching", "model", "done"; "off" when no request is modelled
    body,           \* the text of the request body
    repoInfo,       \* { owner, repo } of line 388
    calls,          \* the outbound requests issued so far, in order
    branch,         \* the branch whose tree was received: "none" before, "main",
                    \* "master", "failed" when both requests failed
    allFiles,       \* line 391
    filesToAnalyze, \* line 404
    fetch,          \* per file of filesToAnalyze, getFileContent's progress:
                    \* "contents" and "download" (request in flight), "done"
                    \* (a content returned), "rejected" (the promise rejected)
    failedContents, \* the files of filesToAnalyze whose contents request failed
    fileContents,   \* per file of filesToAnalyze: the entry of lines 412-417
    validFiles,     \* line 422, after the budget step
    totalTokens,    \* line 430
    modelReply,     \* how the model request ended: kind "none" before, "throw"
                    \* (with the message of the error), "nontext", "text"
    modelText,      \* contentBlock.text when modelReply is "text"
    resp,           \* the response returned, NoResponse before
    other,          \* a second request in flight: its pc, body, ... resp while
                    \* the handler runs for the first one; NoOther when there
                    \* is one request only
    page,           \* the state of the Home component (page.tsx 83-90)
    toasts,         \* the toasts shown so far, in order
    submission      \* the handleSubmit call in flight: what it awaits

fvars == <<fn, fin, fout>>
cvars == <<page, toasts, submission>>
ovars == <<other, page, toasts, submission>>
rvars == <<pc, body, repoInfo, calls, branch, allFiles, filesToAnalyze, fetch,
           failedContents, fileContents, validFiles, totalTokens, modelReply, modelText, resp>>
vars == <<fn, fin, fout, pc, body, repoInfo, calls, branch, allFiles, filesToAnalyze,
          fetch, failedContents, fileContents, validFiles, totalTokens, modelReply, modelText, resp,
          other, page, toasts, submission>>

NoResponse == [status |-> 0]
NoRepo == [owner |-> <<>>, repo |-> <<>>]

RouteOff ==
    /\ pc = "off"
    /\ body = <<>>
    /\ repoInfo = NoRepo
    /\ calls = <<>>
    /\ branch = "none"
    /\ allFiles = <<>>
    /\ filesToAnalyze = <<>>
    /\ fetch = <<>>
    /\ failedContents = {}
    /\ fileContents = <<>>
    /\ validFiles = <<>>
    /\ totalTokens = 0
    /\ modelReply = [kind |-> "none"]
    /\ modelText = <<>>
    /\ resp = NoResponse

FunctionsOff == fn = "" /\ fin = <<>> /\ fout = <<>>

NoOther == [pc |-> "off"]
NoPage == [isLoading |-> FALSE]
NoSubmission == [pc |-> "off"]

ClientOff == page = NoPage /\ toasts = <<>> /\ submission = NoSubmission

(***************************************************************************)
(* SpecCompress: compressCodeWithLineMapping over every short text         *)
(***************************************************************************)
CodeChars == {"a", " ", "\t", "\n", "\r"}

RECURSIVE TextsUpTo(_, _)
TextsUpTo(chars, n) ==
    IF n = 0 THEN {<<>>}
    ELSE LET shorter == TextsUpTo(chars, n - 1)
         IN  shorter \cup {Append(t, c) : t \in shorter, c \in chars}

CompressInit ==
    /\ RouteOff
    /\ other = NoOther
    /\ ClientOff
    /\ fn = ""
    /\ fin \in TextsUpTo(CodeChars, MaxCodeLen)
    /\ fout = <<>>

ApplyCompress ==
    /\ fn = ""
    /\ fn' = "compressCodeWithLineMapping"
    /\ fout' = compressCodeWithLineMapping(fin)
    /\ UNCHANGED <<fin, rvars, ovars>>

CompressNext == ApplyCompress

SpecCompress == CompressInit /\ [][CompressNext]_vars

(***************************************************************************)
(* The inputs of a request: its body, and what GitHub and the model answer *)
(***************************************************************************)
\* largest line number the model puts in an annotation
MaxLine == 6

Urls == <<
    <<"h", "t", "t", "p", "s", ":", "/", "/", "g", "i", "t", "h", "u", "b", ".", "c", "o", "m", "/", "o", "/", "r">>,
    <<"h", "t", "t", "p", "s", ":", "/", "/", "g", "i", "t", "h", "u", "b", ".", "c", "o", "m", "/", "o", "/", "s">>,
    <<"h", "t", "t", "p", "s", ":", "/", "/", "g", "i", "t", "h", "u", "b", ".", "c", "o", "m", "/", "o", "/", "b">>,
    <<"h", "t", "t", "p", "s", ":", "/", "/", "g", "i", "t", "h", "u", "b", ".", "c", "o", "m", "/", "o">>,
    <<"h", "t", "t", "p", "s", ":", "/", "/", "g", "i", "t", "l", "a", "b", ".", "c", "o", "m", "/", "o", "/", "r">>,
    <<"g", "i", "t", "h", "u", "b", ".", "c", "o", "m", "/", "o", "/", "r">>,
    <<"h", "t", "t", "p", "s", ":", "/", "/", "G", "i", "t", "H", "u", "b", ".", "c", "o", "m", "/", "/", "o", "/", "r", "/", "t", "r", "e", "e", "/", "m", "a", "i", "n", "?", "t", "a", "b", "=", "x", "#", "t", "o", "p">>,
    <<"h", "t", "t", "p", ":", "/", "/", "g", "i", "t", "h", "u", "b", ".", "c", "o", "m", ".", "e", "v", "i", "l", ".", "i", "o", "/", "o", "/", "s", "/">>,
    <<"h", "t", "t", "p", "s", ":", "/", "/", "g", "i", "t", "h", "u", "b", ".", "c", "o", "m", "/", "x", "/", "y">>,
    <<"h", "t", "t", "p", "s", ":", "/", "/", "g", "i", "t", "h", "u", "b", ".", "c", "o", "m">>,
    <<"g", "i", "t", ":", "/", "/", "o", "@", "g", "i", "t", "h", "u", "b", ".", "c", "o", "m", ":", "2", "2", "/", "o", "/", "b", ".", "g", "i", "t">> >>

NoMembers == [k \in {} |-> Null]

\* request bodies: not JSON, null, no url, url null, url "", url 0, url 5,
\* and every url of Urls
RequestBodies ==
    << <<TokProse>>,
       <<TokNull>>,
       Stringify(Obj(NoMembers)),
       Stringify(Obj([url |-> Null])),
       Stringify(Obj([url |-> Str(<<>>)])),
       Stringify(Obj([url |-> Num(0)])),
       Stringify(Obj([url |-> Num(5)])) >>
    \o [i \in 1..Len(Urls) |-> Stringify(Obj([url |-> Str(Urls[i])]))]

\* the sections a model answer is made of
Ann(n) == Obj([line |-> Num(n), comment |-> Text("note")])
Item(filename, language, annotations) ==
    Obj([filename |-> Str(filename), language |-> language, annotations |-> Arr(annotations)])
Overview ==
    Obj([title |-> Text("Project Overview"), content |-> Text("overview"), code |-> Null])
KeyFile(items) ==
    Obj([title |-> Text("Key File"), content |-> Text("purpose"), code |-> Arr(items)])

AnswerFilenames == << <<"a", ".", "t", "s">>, <<"b", ".", "j", "s">>, <<"d", ".", "g", "o">>, <<"z", "z", ".", "t", "s">>, <<>> >>
AnswerLines == [i \in 1..(MaxLine + 2) |-> i - 2]

\* one annotated file, for every filename and every line number
PlainAnswers ==
    [i \in 1..(Len(AnswerFilenames) * Len(AnswerLines)) |->
        Arr(<<Overview,
              KeyFile(<<Item(AnswerFilenames[((i - 1) % Len(AnswerFilenames)) + 1],
                             Undefined,
                             <<Ann(AnswerLines[((i - 1) \div Len(AnswerFilenames)) + 1])>>)>>)>>)]

\* answers of other shapes: no code, two files, a language given, a section
\* object instead of an array, null members, members of the wrong type, a
\* line given as a string, no line, a title with brackets
OddAnswers ==
    << Arr(<<Overview>>),
       Arr(<<KeyFile(<<Item(<<"a", ".", "t", "s">>, Text("ts"), <<Ann(1), Ann(2)>>),
                       Item(<<"d", ".", "g", "o">>, Undefined, <<Ann(3)>>)>>)>>),
       KeyFile(<<Item(<<"a", ".", "t", "s">>, Undefined, <<Ann(1)>>)>>),
       Arr(<<Null>>),
       Arr(<<Obj([title |-> Text("Key File"), code |-> Num(5)])>>),
       Num(5),
       Arr(<<Num(5), Overview>>),
       Arr(<<KeyFile(<<Null>>)>>),
       Arr(<<KeyFile(<<Item(<<"a", ".", "t", "s">>, Undefined, <<Null>>)>>)>>),
       Arr(<<KeyFile(<<Obj([filename |-> Str(<<"a", ".", "t", "s">>), annotations |-> Num(1)])>>)>>),
       Arr(<<KeyFile(<<Obj([filename |-> Str(<<"a", ".", "t", "s">>)])>>)>>),
       Arr(<<KeyFile(<<Item(<<"a", ".", "t", "s">>, Undefined, <<Obj([line |-> Str(<<"1">>)])>>)>>)>>),
       Arr(<<KeyFile(<<Item(<<"a", ".", "t", "s">>, Undefined, <<Obj([comment |-> Text("note")])>>)>>)>>),
       Arr(<<Obj([title |-> Str(<<"K", "e", "y", " ", "[", "a", ".", "t", "s", "]">>), code |-> Null])>>) >>

AnswerValues == PlainAnswers \o OddAnswers

\* the text of a model answer: the JSON alone, the JSON between prose, the
\* JSON cut short (max_tokens), and texts that hold no JSON value
ModelTexts ==
    [i \in 1..Len(AnswerValues) |-> Stringify(AnswerValues[i])]
    \o [i \in 1..Len(AnswerValues) |-> <<TokProse>> \o Stringify(AnswerValues[i]) \o <<TokProse>>]
    \o [i \in 1..Len(OddAnswers) |->
           SubSeq(Stringify(OddAnswers[i]), 1, Len(Stringify(OddAnswers[i])) - 1)]
    \o << <<>>,
          <<TokProse>>,
          <<TokCloseArr, TokProse, TokOpenArr>>,
          <<TokProse, TokOpenArr, TokProse, TokCloseArr>> \o Stringify(Arr(<<Overview>>)),
          Stringify(Arr(<<Overview>>)) \o <<TokCloseArr>>,
          <<TokStr(<<"K", "e", "y", " ", "[", "a", ".", "t", "s", "]">>)>> >>

\* messages of the errors the Anthropic SDK throws
ModelErrors == {"Overloaded"}

(***************************************************************************)
(* The POST handler (route.ts 378-663), one action per run of the handler  *)
(* between two awaits of an outbound request                               *)
(***************************************************************************)
TreeCall(info, br) ==
    [api |-> "tree", owner |-> info.owner, repo |-> info.repo, branch |-> br]
ContentsCall(info, path) ==
    [api |-> "contents", owner |-> info.owner, repo |-> info.repo, path |-> path]
DownloadCall(path) == [api |-> "download", path |-> path]
\* the prompt is the url and, per file, its path and compressed text
ModelCall(files) ==
    [api |-> "model",
     files |-> [i \in 1..Len(files) |->
                   [path |-> files[i].path, compressed |-> files[i].compressed]]]

\* a slip of the catch: the message of the error is dropped
catchResponseUnknown(message) == Response(500, ErrorBody("An unknown error occurred"))

\* lines 656-662: every error thrown inside POST is an Error with a message
catchResponse(message) == Response(500, ErrorBody(message))

\* a slip of the check: only an absent url counts as missing
urlMissingOnlyAbsent(url) == url.t = "undefined"

\* line 383: !url
urlMissing(url) == ~Truthy(url)

\* lines 380-388, up to the first outbound request: the response returned,
\* or the repository to list
firstStep(requestBody) ==
    LET parsed == JSONParse(requestBody)
        url == Prop(parsed.val, "url")
        info == extractRepoInfo(ToStr(url))
    IN  IF ~parsed.ok
        THEN [done |-> TRUE, resp |-> catchResponse("Unexpected token in JSON")]
        ELSE IF IsNullish(parsed.val)
        THEN [done |-> TRUE,
              resp |-> catchResponse("Cannot destructure property 'url' of 'body' as it is null.")]
        ELSE IF urlMissing(url)
        THEN [done |-> TRUE, resp |-> Response(400, ErrorBody("URL is required"))]
        ELSE IF ~info.ok
        THEN [done |-> TRUE, resp |-> catchResponse(info.message)]
        ELSE [done |-> FALSE, info |-> [owner |-> info.owner, repo |-> info.repo]]

\* a slip: every blob is listed, also those of node_modules/ and .git/
blobPathsAll(tree) ==
    LET kept == SelectSeq(tree, LAMBDA item : item.type = "blob")
    IN  [i \in 1..Len(kept) |-> kept[i].path]

\* lines 254-256: the paths of the blobs outside node_modules/ and .git/
blobPaths(tree) ==
    LET kept == SelectSeq(tree, LAMBDA item :
                    /\ item.type = "blob"
                    /\ ~Includes(item.path, <<"n", "o", "d", "e", "_", "m", "o", "d", "u", "l", "e", "s", "/">>)
                    /\ ~Includes(item.path, <<".", "g", "i", "t", "/">>))
    IN  [i \in 1..Len(kept) |-> kept[i].path]

\* the listings GitHub gives in this world, each with its filtered listing
\* (line 401); the table is computed once
ImportantFilesOfWorld ==
    [files \in {blobPaths(TreeR), blobPaths(TreeS), blobPaths(TreeB)} |->
        filterImportantFiles(files)]

\* line 401 for the listing held in allFiles
importantFilesOf(files) ==
    IF files \in DOMAIN ImportantFilesOfWorld
    THEN ImportantFilesOfWorld[files]
    ELSE filterImportantFiles(files)

\* lines 410-417
FileEntry(path, content) ==
    LET c == compressCodeWithLineMapping(content)
    IN  [path |-> path, content |-> content, compressed |-> c.compressed, lineMap |-> c.lineMap]

\* a slip of getFileContent: the catch rethrows
getFileContentRethrow(ok, blob) ==
    IF ~ok THEN [kind |-> "reject"]
    ELSE IF blob.encoding = "base64" THEN [kind |-> "content", content |-> blob.content]
    ELSE [kind |-> "download"]

\* lines 270-288, up to the answer of the contents request: '' when the
\* request failed, the decoded content of a base64 answer, else the request
\* for download_url
getFileContent(ok, blob) ==
    IF ~ok THEN [kind |-> "content", content |-> <<>>]
    ELSE IF blob.encoding = "base64" THEN [kind |-> "content", content |-> blob.content]
    ELSE [kind |-> "download"]

\* lines 380-391: from the request to the tree request for main
ReceiveRequest ==
    /\ pc = "start"
    /\ IF firstStep(body).done
       THEN /\ pc' = "done"
            /\ resp' = firstStep(body).resp
            /\ UNCHANGED <<repoInfo, calls>>
       ELSE /\ repoInfo' = firstStep(body).info
            /\ calls' = Append(calls, TreeCall(firstStep(body).info, "main"))
            /\ pc' = "treeMain"
            /\ UNCHANGED resp
    /\ UNCHANGED <<body, branch, allFiles, filesToAnalyze, fetch, failedContents,
                   fileContents, validFiles, totalTokens, modelReply, modelText, fvars, ovars>>

\* a slip of the check: two files are enough
minimumFilesTwo == MinImportantFiles - 1

\* line 397: the number of important files below which the route gives up
minimumFiles == MinImportantFiles

\* a slip: slice(0, 7) is left out, every important file is fetched
AfterTreeAll(br, files) ==
    LET importantFiles == filterImportantFiles(files)
        selected == importantFiles
    IN  /\ branch' = br
        /\ allFiles' = files
        /\ IF Len(importantFiles) < minimumFiles
           THEN /\ pc' = "done"
                /\ resp' = Response(400, ErrorBody(
                      "Repository must have at least 3 important code files for analysis"))
                /\ UNCHANGED <<calls, filesToAnalyze, fetch, fileContents>>
           ELSE /\ filesToAnalyze' = selected
                /\ calls' = calls \o [i \in 1..Len(selected) |->
                                         ContentsCall(repoInfo, selected[i])]
                /\ fetch' = [i \in 1..Len(selected) |-> "contents"]
                /\ fileContents' = [i \in 1..Len(selected) |-> FileEntry(selected[i], <<>>)]
                /\ pc' = "fetching"
                /\ UNCHANGED resp

\* lines 391-419: from the file list to the contents requests, all issued
\* before the first of them is answered
AfterTree(br, files) ==
    LET importantFiles == filterImportantFiles(files)
        selected == SubSeq(importantFiles, 1,
                        IF Len(importantFiles) < MaxFilesToAnalyze
                        THEN Len(importantFiles) ELSE MaxFilesToAnalyze)
    IN  /\ branch' = br
        /\ allFiles' = files
        /\ IF Len(importantFiles) < minimumFiles
           THEN /\ pc' = "done"
                /\ resp' = Response(400, ErrorBody(
                      "Repository must have at least 3 important code files for analysis"))
                /\ UNCHANGED <<calls, filesToAnalyze, fetch, fileContents>>
           ELSE /\ filesToAnalyze' = selected
                /\ calls' = calls \o [i \in 1..Len(selected) |->
                                         ContentsCall(repoInfo, selected[i])]
                /\ fetch' = [i \in 1..Len(selected) |-> "contents"]
                /\ fileContents' = [i \in 1..Len(selected) |-> FileEntry(selected[i], <<>>)]
                /\ pc' = "fetching"
                /\ UNCHANGED resp

\* lines 252-257: the answer to the tree request for main
TreeMainResponse ==
    /\ pc = "treeMain"
    /\ \/ /\ KnownRepo(repoInfo.owner, repoInfo.repo)
          /\ AfterTree("main", blobPaths(TreeOf(repoInfo.repo)))
       \/ /\ calls' = Append(calls, TreeCall(repoInfo, "master"))
          /\ pc' = "treeMaster"
          /\ UNCHANGED <<branch, allFiles, filesToAnalyze, fetch, fileContents, resp>>
    /\ UNCHANGED <<body, repoInfo, failedContents, validFiles, totalTokens, modelReply,
                   modelText, fvars, ovars>>

\* lines 258-266: the answer to the tree request for master
TreeMasterResponse ==
    /\ pc = "treeMaster"
    /\ \/ /\ KnownRepo(repoInfo.owner, repoInfo.repo)
          /\ AfterTree("master", blobPaths(TreeOf(repoInfo.repo)))
       \/ /\ branch' = "failed"
          /\ pc' = "done"
          /\ resp' = catchResponse("Failed to fetch repository structure")
          /\ UNCHANGED <<calls, allFiles, filesToAnalyze, fetch, fileContents>>
    /\ UNCHANGED <<body, repoInfo, failedContents, validFiles, totalTokens, modelReply,
                   modelText, fvars, ovars>>

\* lines 422-534: Promise.all has resolved with contents; from the filter of
\* empty files to the model request
CallModel(contents) ==
    LET budget == applyTokenBudget(SelectSeq(contents, LAMBDA file : file.content # <<>>))
    IN  /\ validFiles' = budget.validFiles
        /\ totalTokens' = budget.totalTokens
        /\ calls' = Append(calls, ModelCall(budget.validFiles))
        /\ pc' = "model"
        /\ UNCHANGED resp

\* a slip: the handler runs on with the first entry returned (Promise.race)
SettleFirst(i, content) ==
    LET contents == [fileContents EXCEPT ![i] = FileEntry(filesToAnalyze[i], content)]
    IN  /\ fetch' = [fetch EXCEPT ![i] = "done"]
        /\ fileContents' = contents
        /\ IF pc = "fetching"
           THEN CallModel(contents)
           ELSE UNCHANGED <<pc, calls, validFiles, totalTokens, resp>>

\* a slip: the callback pushes its entry to a shared array, so the entries
\* are in the order of completion
SettlePush(i, content) ==
    LET k == 1 + Cardinality({j \in 1..Len(fetch) : fetch[j] = "done"})
        contents == [fileContents EXCEPT ![k] = FileEntry(filesToAnalyze[i], content)]
        settled == [fetch EXCEPT ![i] = "done"]
    IN  /\ fetch' = settled
        /\ fileContents' = contents
        /\ IF pc = "fetching" /\ \A j \in 1..Len(settled) : settled[j] = "done"
           THEN CallModel(contents)
           ELSE UNCHANGED <<pc, calls, validFiles, totalTokens, resp>>

\* the callback of line 408 for file i returns its entry; when it is the last
\* one, Promise.all resolves and the handler runs on
Settle(i, content) ==
    LET contents == [fileContents EXCEPT ![i] = FileEntry(filesToAnalyze[i], content)]
        settled == [fetch EXCEPT ![i] = "done"]
    IN  /\ fetch' = settled
        /\ fileContents' = contents
        /\ IF pc = "fetching" /\ \A j \in 1..Len(settled) : settled[j] = "done"
           THEN CallModel(contents)
           ELSE UNCHANGED <<pc, calls, validFiles, totalTokens, resp>>

\* the callback of line 408 for file i rejects: Promise.all rejects with the
\* first rejection and the catch of line 656 answers
Reject(i, message) ==
    /\ fetch' = [fetch EXCEPT ![i] = "rejected"]
    /\ IF pc = "fetching"
       THEN pc' = "done" /\ resp' = catchResponse(message)
       ELSE UNCHANGED <<pc, resp>>
    /\ UNCHANGED <<calls, fileContents, validFiles, totalTokens>>

\* lines 277-287: the answer to the contents request of file i, which fails
\* or succeeds
ContentsResponse(i) ==
    /\ fetch[i] = "contents"
    /\ \E ok \in BOOLEAN :
          LET r == getFileContent(ok, BlobOf(filesToAnalyze[i]))
          IN  /\ failedContents' = IF ok THEN failedContents ELSE failedContents \cup {i}
              /\ CASE r.kind = "content" -> Settle(i, r.content)
                [] r.kind = "download" ->
                      /\ fetch' = [fetch EXCEPT ![i] = "download"]
                      /\ calls' = Append(calls, DownloadCall(filesToAnalyze[i]))
                      /\ UNCHANGED <<pc, fileContents, validFiles, totalTokens, resp>>
                [] OTHER -> Reject(i, "Request failed with status code 404")
    /\ UNCHANGED <<body, repoInfo, branch, allFiles, filesToAnalyze, modelReply, modelText,
                   fvars, ovars>>

\* line 283: the answer to the download_url request of file i.  The promise
\* is returned without await, so its rejection is not caught at line 284
DownloadResponse(i) ==
    /\ fetch[i] = "download"
    /\ \/ Settle(i, BlobOf(filesToAnalyze[i]).content)
       \/ Reject(i, BlobOf(filesToAnalyze[i]).error)
    /\ UNCHANGED <<body, repoInfo, branch, allFiles, filesToAnalyze, failedContents,
                   modelReply, modelText, fvars, ovars>>

\* lines 526-655 and the catch of 656: the answer of the model
ModelResponse ==
    /\ pc = "model"
    /\ pc' = "done"
    /\ \/ \E message \in ModelErrors :
             /\ modelReply' = [kind |-> "throw", message |-> message]
             /\ resp' = catchResponse(message)
             /\ UNCHANGED modelText
       \/ /\ modelReply' = [kind |-> "nontext"]
          /\ resp' = Response(500, ErrorBody("Unexpected response format from Claude"))
          /\ UNCHANGED modelText
       \/ \E n \in 1..Len(ModelTexts) :
             /\ modelReply' = [kind |-> "text"]
             /\ modelText' = ModelTexts[n]
             /\ resp' = respondToText(validFiles, ModelTexts[n])
    /\ UNCHANGED <<body, repoInfo, calls, branch, allFiles, filesToAnalyze, fetch,
                   failedContents, fileContents, validFiles, totalTokens, fvars, ovars>>

Init ==
    /\ FunctionsOff
    /\ other = NoOther
    /\ ClientOff
    /\ pc = "start"
    /\ \E n \in 1..Len(RequestBodies) : body = RequestBodies[n]
    /\ repoInfo = NoRepo
    /\ calls = <<>>
    /\ branch = "none"
    /\ allFiles = <<>>
    /\ filesToAnalyze = <<>>
    /\ fetch = <<>>
    /\ failedContents = {}
    /\ fileContents = <<>>
    /\ validFiles = <<>>
    /\ totalTokens = 0
    /\ modelReply = [kind |-> "none"]
    /\ modelText = <<>>
    /\ resp = NoResponse

Next ==
    \/ ReceiveRequest
    \/ TreeMainResponse
    \/ TreeMasterResponse
    \/ \E i \in 1..Len(fetch) : ContentsResponse(i)
    \/ \E i \in 1..Len(fetch) : DownloadResponse(i)
    \/ ModelResponse

Spec == Init /\ [][Next]_vars

(***************************************************************************)
(* SpecFilter: filterImportantFiles over every short list of paths, applied*)
(* once and then to its own result                                         *)
(***************************************************************************)
MaxPaths == 3

\* paths with an extension of the list in lower and upper case, with a
\* pattern in mixed case, with a pattern inside a word, with no extension,
\* with several dots, with no name
FilterPaths == {
    <<"a", ".", "t", "s">>,
    <<"A", ".", "T", "S">>,
    <<"R", "E", "A", "D", "M", "E", ".", "j", "s">>,
    <<"D", "o", "c", "k", "e", "r", "f", "i", "l", "e", ".", "r", "b">>,
    <<"l", "a", "t", "e", "s", "t", ".", "p", "y">>,
    <<"x", ".", "c", "s", "s">>,
    <<"n", "o", "e", "x", "t">>,
    <<"s", "r", "c", "/", "a", ".", "b", ".", "g", "o">>,
    <<".", "c">>,
    <<"a", ".", "t", "s", "x", ".", "b", "a", "k">> }

RECURSIVE ListsUpTo(_, _)
ListsUpTo(items, n) ==
    IF n = 0 THEN {<<>>}
    ELSE ListsUpTo(items, n - 1)
         \cup {Append(l, x) : l \in {k \in ListsUpTo(items, n - 1) : Len(k) = n - 1}, x \in items}

FilterInit ==
    /\ RouteOff
    /\ other = NoOther
    /\ ClientOff
    /\ fn = ""
    /\ fin \in ListsUpTo(FilterPaths, MaxPaths)
    /\ fout = <<>>

ApplyFilter ==
    /\ fn = ""
    /\ fn' = "filterImportantFiles"
    /\ fout' = filterImportantFiles(fin)
    /\ UNCHANGED <<fin, rvars, ovars>>

ApplyFilterAgain ==
    /\ fn = "filterImportantFiles"
    /\ fn' = "filterImportantFiles twice"
    /\ fout' = filterImportantFiles(fout)
    /\ UNCHANGED <<fin, rvars, ovars>>

FilterNext == ApplyFilter \/ ApplyFilterAgain

SpecFilter == FilterInit /\ [][FilterNext]_vars

(***************************************************************************)
(* The token budget alone (route.ts 421-452)                               *)
(*                                                                         *)
(* The budget of 180000 tokens is reached by texts of several hundred      *)
(* thousand characters. fin holds the length of each fetched content; the *)
(* step builds the texts of these lengths, runs the budgeting code on the  *)
(* entries, and fout keeps of each remaining entry its path and the token  *)
(* count of its compressed text, not the text.                             *)
(***************************************************************************)
MaxBudgetFiles == 5

\* lengths in characters: 1 token, 45000 tokens, 60001 tokens
FileLengths == {4, 180000, 240004}

\* a text of n characters without white space: it compresses to itself
RECURSIVE TextOfLength(_)
TextOfLength(n) ==
    IF n = 0 THEN <<>>
    ELSE IF n % 2 = 0 THEN LET half == TextOfLength(n \div 2) IN half \o half
    ELSE Append(TextOfLength(n - 1), "a")

\* the entry of lines 410-417 for the i-th file, of a content of n characters
LongEntry(i, n) ==
    LET text == TextOfLength(n)
    IN  [path |-> <<LowerCase[i], ".", "t", "s">>, content |-> text,
         compressed |-> text, lineMap |-> [k \in {0} |-> 0]]

TokensOf(files) ==
    [i \in 1..Len(files) |->
        [path |-> files[i].path, tokens |-> countTokens(files[i].compressed)]]

BudgetInit ==
    /\ RouteOff
    /\ other = NoOther
    /\ ClientOff
    /\ fn = ""
    /\ fin \in ListsUpTo(FileLengths, MaxBudgetFiles)
    /\ fout = <<>>

ApplyBudget ==
    /\ fn = ""
    /\ fn' = "applyTokenBudget"
    /\ LET fileContents_ == [i \in 1..Len(fin) |-> LongEntry(i, fin[i])]
           budget == applyTokenBudget(SelectSeq(fileContents_, LAMBDA file : file.content # <<>>))
       IN  fout' = [validFiles |-> TokensOf(budget.validFiles),
                    totalTokens |-> budget.totalTokens]
    /\ UNCHANGED <<fin, rvars, ovars>>

BudgetNext == ApplyBudget

SpecBudget == BudgetInit /\ [][BudgetNext]_vars

(***************************************************************************)
(* SpecBudgetLoop: the same step, one action per iteration of its while    *)
(* loop.  Between the actions fout keeps of each entry its path, the       *)
(* length of its compressed text and the token count countTokens gave for  *)
(* that text; every action builds the texts again and runs the code on the *)
(* entries.  fout.initial is the list before the step and fout.removed the *)
(* files popped so far, in the order of their removal.                     *)
(***************************************************************************)
SizesOf(files) ==
    [i \in 1..Len(files) |->
        [path |-> files[i].path, length |-> Len(files[i].compressed),
         tokens |-> countTokens(files[i].compressed)]]

EntriesOf(sizes) ==
    [i \in 1..Len(sizes) |->
        LET text == TextOfLength(sizes[i].length)
        IN  [path |-> sizes[i].path, content |-> text, compressed |-> text,
             lineMap |-> [k \in {0} |-> 0]]]

\* lines 421-441: the empty files are dropped, the counts summed and, over
\* the budget, the files sorted
BudgetStart ==
    /\ fn = ""
    /\ fn' = "token budget: loop"
    /\ LET fileContents_ == [i \in 1..Len(fin) |-> LongEntry(i, fin[i])]
           valid == SelectSeq(fileContents_, LAMBDA file : file.content # <<>>)
           total == SumTokens(valid)
       IN  fout' = [initial |-> SizesOf(valid),
                    validFiles |-> IF total > MAX_AVAILABLE_TOKENS
                                   THEN SizesOf(SortBySize(valid)) ELSE SizesOf(valid),
                    totalTokens |-> total,
                    exceeds |-> total > MAX_AVAILABLE_TOKENS,
                    removed |-> <<>>]
    /\ UNCHANGED <<fin, rvars, ovars>>

\* lines 443-449: one iteration
RemoveFile ==
    /\ fn = "token budget: loop"
    /\ fout.exceeds
    /\ loopContinues(fout.validFiles, fout.totalTokens)
    /\ LET step == removeOne(EntriesOf(fout.validFiles), fout.totalTokens)
       IN  fout' = [fout EXCEPT !.validFiles = SizesOf(step.validFiles),
                                !.totalTokens = step.totalTokens,
                                !.removed = @ \o SizesOf(<<step.removedFile>>)]
    /\ UNCHANGED <<fn, fin, rvars, ovars>>

\* line 443 is false, or line 435 was: the step is over
BudgetEnd ==
    /\ fn = "token budget: loop"
    /\ ~(fout.exceeds /\ loopContinues(fout.validFiles, fout.totalTokens))
    /\ fn' = "token budget: done"
    /\ UNCHANGED <<fin, fout, rvars, ovars>>

BudgetLoopNext ==
    \/ BudgetStart
    \/ RemoveFile
    \/ BudgetEnd

SpecBudgetLoop == BudgetInit /\ [][BudgetLoopNext]_vars

(***************************************************************************)
(* SpecGraph: the nodes and edges CodeWalkthroughFlow builds for the files *)
(* of a walkthrough (src/src/components/CodeWalkthrough.tsx 401-564).      *)
(* Math.random() is an input: BuildGraph draws the pair of node indices of *)
(* every iteration of the connection loop and the target of every node the *)
(* last loop may have to connect.  A node is the 0-based index of its file *)
(* (id file-<idx>); of an edge the source and the target are kept, not its *)
(* colour, dash and animation.                                             *)
(***************************************************************************)
MaxGraphFiles == 3

\* code items of the sections: filename and content
GraphFiles == {
    [filename |-> <<"s", "r", "c", "/", "a", ".", "t", "s">>, content |-> <<"i", "m", "p", "o", "r", "t", " ", "{", " ", "b", " ", "}", " ", "f", "r", "o", "m", " ", "'", ".", "/", "b", "'", "\n", "b", "(", ")">>],
    [filename |-> <<"s", "r", "c", "/", "b", ".", "t", "s">>, content |-> <<"e", "x", "p", "o", "r", "t", " ", "c", "o", "n", "s", "t", " ", "b", " ", "=", " ", "1">>],
    [filename |-> <<"c", ".", "t", "s">>, content |-> <<"c", "o", "n", "s", "t", " ", "x", " ", "=", " ", "1", "\n", "i", "m", "p", "o", "r", "t", " ", "a", " ", "f", "r", "o", "m", " ", "\"", "a", "\"">>] }

\* lines 405-416: the sample shown when the walkthrough has no code files
sampleFiles == <<[filename |-> <<"s", "r", "c", "/", "c", "o", "m", "p", "o", "n", "e", "n", "t", "s", "/", "A", "p", "p", ".", "t", "s", "x">>,
                  content |-> <<"i", "m", "p", "o", "r", "t", " ", "R", "e", "a", "c", "t", " ", "f", "r", "o", "m", " ", "\"", "r", "e", "a", "c", "t", "\"", ";", "\n", "i", "m", "p", "o", "r", "t", " ", "{", " ", "H", "e", "a", "d", "e", "r", " ", "}", " ", "f", "r", "o", "m", " ", "\"", ".", "/", "H", "e", "a", "d", "e", "r", "\"", ";", "\n", "i", "m", "p", "o", "r", "t", " ", "{", " ", "F", "o", "o", "t", "e", "r", " ", "}", " ", "f", "r", "o", "m", " ", "\"", ".", "/", "F", "o", "o", "t", "e", "r", "\"", ";", "\n", "e", "x", "p", "o", "r", "t", " ", "f", "u", "n", "c", "t", "i", "o", "n", " ", "A", "p", "p", "(", ")", " ", "{", " ", "r", "e", "t", "u", "r", "n", " ", "(", " ", "<", "d", "i", "v", ">", "<", "H", "e", "a", "d", "e", "r", "/", ">", "<", "F", "o", "o", "t", "e", "r", "/", ">", "<", "/", "d", "i", "v", ">", " ", ")", ";", " ", "}">>]>>

SampleOf(allCodeFiles) == IF Len(allCodeFiles) > 0 THEN allCodeFiles ELSE sampleFiles

\* lines 435-438
ImportLinesOf(content) ==
    SelectSeq(Split(content, NL),
              LAMBDA line : Includes(line, <<"i", "m", "p", "o", "r", "t", " ">>) /\ Includes(line, <<"f", "r", "o", "m", " ">>))

\* lines 467-476: does file import targetFile, by the import-line heuristic
hasImport(file, targetFile) ==
    LET importLines == ImportLinesOf(file.content)
        parts == Split(targetFile.filename, "/")
        targetFileName == parts[Len(parts)]
        targetBaseName == Split(targetFileName, ".")[1]
    IN  \E n \in 1..Len(importLines) :
            \/ Includes(importLines[n], <<"f", "r", "o", "m", " ", "'", ".", "/">> \o targetBaseName \o <<"'">>)
            \/ Includes(importLines[n], <<"f", "r", "o", "m", " ", "\"">> \o targetBaseName \o <<"\"">>)
            \/ Includes(importLines[n], <<"f", "r", "o", "m", " ", "'", ".", "/">> \o targetFileName \o <<"'">>)
            \/ Includes(importLines[n], <<"f", "r", "o", "m", " ", "\"">> \o targetFileName \o <<"\"">>)

Edge(sourceIdx, targetIdx) == [source |-> sourceIdx, target |-> targetIdx]

\* lines 462-489: the edges pushed for the imports, source by source
RECURSIVE importEdges(_, _)
importEdges(sample, k) ==
    IF k >= Len(sample) * Len(sample) THEN <<>>
    ELSE LET idx == k \div Len(sample)
             targetIdx == k % Len(sample)
         IN  (IF idx # targetIdx /\ hasImport(sample[idx + 1], sample[targetIdx + 1])
              THEN <<Edge(idx, targetIdx)>> ELSE <<>>)
             \o importEdges(sample, k + 1)

\* line 496
numConnectionsOf(n) ==
    IF n * 2 <= (n * (n - 1)) \div 2 THEN n * 2 ELSE (n * (n - 1)) \div 2

\* the pairs (sourceIdx, targetIdx) lines 502-508 can draw
DrawsOf(n) == {p \in (0..(n - 1)) \X (0..(n - 1)) : p[1] # p[2]}

EdgeKey(p) == IF p[1] <= p[2] THEN <<p[1], p[2]>> ELSE <<p[2], p[1]>>

\* lines 500-535: one edge per drawn pair whose key was not added before
RECURSIVE randomEdges(_, _, _, _)
randomEdges(picks, i, addedEdges, edges) ==
    IF i > Len(picks) THEN edges
    ELSE IF EdgeKey(picks[i]) \in addedEdges
    THEN randomEdges(picks, i + 1, addedEdges, edges)
    ELSE randomEdges(picks, i + 1, addedEdges \cup {EdgeKey(picks[i])},
                     Append(edges, Edge(picks[i][1], picks[i][2])))

\* lines 538-561: a node without a connection gets an edge to a drawn node
RECURSIVE ensureConnections(_, _, _, _)
ensureConnections(edges, i, n, targets) ==
    IF i >= n THEN edges
    ELSE LET hasConnection ==
                 \E k \in 1..Len(edges) : edges[k].source = i \/ edges[k].target = i
         IN  IF ~hasConnection /\ n > 1
             THEN ensureConnections(Append(edges, Edge(i, targets[i + 1])), i + 1, n, targets)
             ELSE ensureConnections(edges, i + 1, n, targets)

\* lines 401-564.  The import edges are pushed (462-489) and then dropped by
\* edges.length = 0 (line 493)
buildGraph(allCodeFiles, picks, targets) ==
    LET sample == SampleOf(allCodeFiles)
        n == Len(sample)
        pushed == importEdges(sample, 0)
        cleared == SubSeq(pushed, 1, 0)
    IN  [nodes |-> [i \in 1..n |-> sample[i].filename],
         edges |-> ensureConnections(randomEdges(picks, 1, {}, cleared), 0, n, targets)]

GraphInit ==
    /\ RouteOff
    /\ other = NoOther
    /\ ClientOff
    /\ fn = ""
    /\ fin \in ListsUpTo(GraphFiles, MaxGraphFiles)
    /\ fout = <<>>

BuildGraph ==
    /\ fn = ""
    /\ fn' = "CodeWalkthroughFlow"
    /\ LET n == Len(SampleOf(fin))
       IN  \E picks \in [1..numConnectionsOf(n) -> DrawsOf(n)] :
           \E targets \in {t \in [1..n -> 0..(n - 1)] : \A i \in 1..n : n > 1 => t[i] # i - 1} :
               fout' = buildGraph(fin, picks, targets)
    /\ UNCHANGED <<fin, rvars, ovars>>

GraphNext == BuildGraph

SpecGraph == GraphInit /\ [][GraphNext]_vars

(***************************************************************************)
(* SpecClient: the page (src/src/app/page.tsx), its input form             *)
(* (src/src/components/chatbox-ui.tsx) and the API service                 *)
(* (src/src/services/api.ts).  page holds the useState values of Home and  *)
(* of ChatInputForm and the pending transition timer, toasts the toasts    *)
(* shown so far, each with the number of the submission that showed it,    *)
(* and submission the call of handleSubmit that is waiting at its await,   *)
(* with the HTTP requests it has posted.  The form is rendered on the      *)
(* initial screen only, and its input and button are disabled while        *)
(* isLoading; after a walkthrough is shown the page offers one control,    *)
(* the button that reloads the page.                                       *)
(***************************************************************************)
MaxSubmissions == 2

ClientInputs == {
    <<"h", "t", "t", "p", "s", ":", "/", "/", "g", "i", "t", "h", "u", "b", ".", "c", "o", "m", "/", "o", "/", "r">>,
    <<" ", "h", "t", "t", "p", "s", ":", "/", "/", "g", "i", "t", "h", "u", "b", ".", "c", "o", "m", "/", "o", "/", "r", " ">>,
    <<"h", "t", "t", "p", "s", ":", "/", "/", "d", "o", "c", "s", ".", "x", ".", "i", "o", "/", "a", "p", "i">>,
    <<"h", "t", "t", "p", "s", ":", "/", "/", "x", ".", "i", "o", "/", "d", "o", "c", "s">>,
    <<"g", "i", "t", "h", "u", "b", ".", "c", "o", "m", "/", "o", "/", "r">>,
    <<"d", "o", "c", "s">>,
    <<"h", "t", "t", "p", "s", ":", "/", "/", "x", ".", "i", "o", "/", "a", "b", "c", "d">>,
    <<"h", "t", "t", "p", "s", ":", "/", "/", "d", "o", "c", "s", ".", "g", "i", "t", "h", "u", "b", ".", "c", "o", "m", "/", "e", "n">> }

DocsWord == <<"d", "o", "c", "s">>

\* the messages of the {error} bodies of the route (route.ts 384, 391, 399,
\* 544, 660) and of errors thrown by its outbound requests
BadRequestMessages ==
    {"URL is required", "Invalid GitHub URL",
     "Repository must have at least 3 important code files for analysis"}
ServerErrorMessages ==
    {"Unexpected response format from Claude", "An unknown error occurred",
     "Request failed with status code 404", "Network Error", "Overloaded"}

\* what axios.post receives: a response with status and data, or none
AnalysisAnswers ==
    {[kind |-> "response", status |-> 200, data |-> Arr(sections)] :
        sections \in {<<>>, <<Overview>>, <<Overview, KeyFile(<<>>)>>,
                      <<ParsingErrorSection>>}}
    \cup {[kind |-> "response", status |-> 200, data |-> data] :
        data \in {Obj([sections |-> Arr(<<Overview>>), summary |-> Text("summary")]),
                  Obj([sections |-> Arr(<<Overview>>)]), Null}}
    \cup {[kind |-> "response", status |-> 400, data |-> ErrorBody(m)] :
        m \in BadRequestMessages}
    \cup {[kind |-> "response", status |-> 500, data |-> ErrorBody(m)] :
        m \in ServerErrorMessages}
    \cup {[kind |-> "response", status |-> 502, data |-> Text("Bad Gateway")],
          [kind |-> "none"]}

\* the message of the AxiosError axios.post rejects with
AxiosMessage(answer) ==
    IF answer.kind = "none" THEN "Network Error"
    ELSE CASE answer.status = 400 -> "Request failed with status code 400"
           [] answer.status = 500 -> "Request failed with status code 500"
           [] OTHER -> "Request failed with status code 502"

\* a slip: the catch rethrows the error of axios as it is
analyzeRepositoryRethrow(answer) ==
    IF answer.kind = "response" /\ answer.status = 200
    THEN [ok |-> TRUE, val |-> answer.data]
    ELSE [ok |-> FALSE, message |-> AxiosMessage(answer)]

\* api.ts 22-33: the data of a 2xx response; otherwise an Error with the
\* error of the response's body, or the error of axios
analyzeRepository(answer) ==
    IF answer.kind = "response" /\ answer.status = 200
    THEN [ok |-> TRUE, val |-> answer.data]
    ELSE IF answer.kind = "response" /\ Truthy(Prop(answer.data, "error"))
    THEN [ok |-> FALSE, message |-> Prop(answer.data, "error").v]
    ELSE [ok |-> FALSE, message |-> AxiosMessage(answer)]

\* api.ts 35-50: no request is made
demoSection ==
    Obj([title |-> Text("Documentation Analysis Unavailable"),
         content |-> Text("The documentation analysis feature has been disabled in this version. Please use GitHub repository analysis instead."),
         code |-> Undefined])

analyzeDocumentation(url) == <<demoSection>>

\* chatbox-ui.tsx 53-64
detectUrlType(url) ==
    LET urlObj == URLParse(url)
    IN  IF ~urlObj.ok THEN "null"
        ELSE IF Includes(urlObj.hostname, GitHubHost) THEN "github"
        ELSE "docs"

\* chatbox-ui.tsx 66-92: the error message set, Null when the url is valid
validateUrl(url) ==
    LET trimmedUrl == Trim(url)
    IN  IF Len(trimmedUrl) < 10 THEN Text("Please enter a complete URL")
        ELSE IF ~Includes(trimmedUrl, GitHubHost) /\ ~Includes(trimmedUrl, DocsWord)
        THEN Text("Please enter a GitHub repository URL or documentation link")
        ELSE IF ~URLParse(trimmedUrl).ok THEN Text("Please enter a valid URL")
        ELSE Null

\* page.tsx 83-91 and chatbox-ui.tsx 21-24; transitionTimer and contentTimer
\* say whether the timers of page.tsx 115 and 97 are pending
InitialPage ==
    [isLoading |-> FALSE, walkthrough |-> <<>>, repositorySummary |-> Null,
     error |-> Null, hasSentFirstQuery |-> FALSE, isTransitioning |-> FALSE,
     analyzedUrl |-> Null, showContent |-> FALSE, transitionTimer |-> FALSE,
     contentTimer |-> FALSE, input |-> <<>>, errorMessage |-> Null]

\* page.tsx 103: the dependencies of the effect
effectDeps(p) == <<p.isTransitioning, p.hasSentFirstQuery, p.walkthrough>>

\* page.tsx 92-104 with every effect run showing the content at once
showContentEffectAtOnce(old, new) ==
    IF effectDeps(old) = effectDeps(new) THEN new
    ELSE [new EXCEPT !.contentTimer = FALSE, !.showContent = TRUE]

\* page.tsx 92-104: the render that follows a change of state runs the effect
\* when a dependency has changed: the cleanup of the last run clears its
\* timer, then the content is hidden or the timer of 200 ms is started
showContentEffect(old, new) ==
    IF effectDeps(old) = effectDeps(new) THEN new
    ELSE IF new.isTransitioning
    THEN [new EXCEPT !.contentTimer = FALSE, !.showContent = FALSE]
    ELSE IF new.hasSentFirstQuery /\ new.walkthrough # <<>>
    THEN [new EXCEPT !.contentTimer = TRUE]
    ELSE [new EXCEPT !.contentTimer = FALSE]

\* page.tsx 212 and 262: the form is on the initial screen only
FormRendered == ~page.hasSentFirstQuery /\ ~page.isTransitioning

\* page.tsx 336: the walkthrough is on the screen
WalkthroughRendered ==
    ~page.isLoading /\ ~Truthy(page.error) /\ page.walkthrough # <<>> /\ page.showContent

\* page.tsx 324: the error is on the screen
ErrorRendered == ~page.isLoading /\ Truthy(page.error)

\* page.tsx 352: the button 'Search Another Repository' is on the screen
ReloadRendered == ~page.isLoading /\ page.walkthrough # <<>> /\ page.showContent

Idle(n, posts) == [pc |-> "idle", n |-> n, type |-> "null", url |-> <<>>, posts |-> posts,
                   answer |-> [kind |-> "none"]]

Toast(kind, title, description) ==
    [kind |-> kind, title |-> title, description |-> description, n |-> submission.n]

ClientInit ==
    /\ RouteOff
    /\ FunctionsOff
    /\ other = NoOther
    /\ page = InitialPage
    /\ toasts = <<>>
    /\ submission = Idle(0, <<>>)

\* chatbox-ui.tsx 107-113
OnInputChange ==
    /\ FormRendered
    /\ ~page.isLoading
    /\ \E value \in ClientInputs :
           page' = [page EXCEPT !.input = value, !.errorMessage = Null]
    /\ UNCHANGED <<toasts, submission, rvars, fvars, other>>

\* page.tsx 106-162, up to the await.  The description of the first toast is
\* the pieces of its template.
handleSubmit(url, type) ==
    /\ page' = showContentEffect(page, [page EXCEPT
                   !.input = <<>>,
                   !.errorMessage = Null,
                   !.isTransitioning = IF page.hasSentFirstQuery THEN @ ELSE TRUE,
                   !.transitionTimer = IF page.hasSentFirstQuery THEN @ ELSE TRUE,
                   !.isLoading = TRUE,
                   !.error = Null,
                   !.repositorySummary = Null,
                   !.analyzedUrl = Str(url),
                   !.walkthrough = <<>>])
    /\ submission' =
           [pc |-> IF type = "github" THEN "repos" ELSE "docs",
            n |-> submission.n + 1, type |-> type, url |-> url,
            posts |-> IF type = "github"
                      THEN Append(submission.posts,
                                  [endpoint |-> "/api/analyze/repos", url |-> url])
                      ELSE submission.posts,
            answer |-> [kind |-> "none"]]
    /\ toasts' = Append(toasts,
           [kind |-> "success", title |-> "Gitting Ready...",
            description |-> <<"Processing ",
                              IF type = "github" THEN "repository" ELSE "documentation",
                              " at ", url>>,
            n |-> submission.n + 1])

\* chatbox-ui.tsx 94-105, with the handleSubmit it calls
HandleSend ==
    /\ FormRendered
    /\ ~page.isLoading
    /\ page.input # <<>>
    /\ submission.n < MaxSubmissions
    /\ IF Trim(page.input) = <<>>
       THEN UNCHANGED <<page, toasts, submission>>
       ELSE IF validateUrl(page.input) # Null
       THEN /\ page' = [page EXCEPT !.errorMessage = validateUrl(page.input)]
            /\ UNCHANGED <<toasts, submission>>
       ELSE IF detectUrlType(page.input) = "null"
       THEN /\ page' = [page EXCEPT !.errorMessage = Text("Could not determine URL type")]
            /\ UNCHANGED <<toasts, submission>>
       ELSE handleSubmit(Trim(page.input), detectUrlType(page.input))
    /\ UNCHANGED <<rvars, fvars, other>>

\* page.tsx 115-118: the timer of 600 ms
TransitionTimer ==
    /\ page.transitionTimer
    /\ page' = showContentEffect(page,
                   [page EXCEPT !.transitionTimer = FALSE, !.hasSentFirstQuery = TRUE,
                                !.isTransitioning = FALSE])
    /\ UNCHANGED <<toasts, submission, rvars, fvars, other>>

\* page.tsx 97-99: the timer of 200 ms
ContentTimer ==
    /\ page.contentTimer
    /\ page' = [page EXCEPT !.contentTimer = FALSE, !.showContent = TRUE]
    /\ UNCHANGED <<toasts, submission, rvars, fvars, other>>

\* page.tsx 352-358: window.location.reload() mounts the page anew; toasts
\* keeps what was shown, submission the count and the requests posted
Reload ==
    /\ ReloadRendered
    /\ page' = InitialPage
    /\ submission' = Idle(submission.n, submission.posts)
    /\ UNCHANGED <<toasts, rvars, fvars, other>>

\* page.tsx 170-184 without the finally of lines 185-187
CatchErrorNoFinally(message) ==
    LET errorMsg == IF message \in {"Repository must have at least 5 files",
                                    "Repository must have at least 5 files for analysis"}
                    THEN "Repository must have at least 5 files for meaningful analysis"
                    ELSE message
    IN  /\ page' = [page EXCEPT !.error = Text(errorMsg)]
        /\ toasts' = Append(toasts, Toast("error", "Error", <<errorMsg>>))

\* page.tsx 170-187: catch and finally
CatchError(message) ==
    LET errorMsg == IF message \in {"Repository must have at least 5 files",
                                    "Repository must have at least 5 files for analysis"}
                    THEN "Repository must have at least 5 files for meaningful analysis"
                    ELSE message
    IN  /\ page' = [page EXCEPT !.error = Text(errorMsg), !.isLoading = FALSE]
        /\ toasts' = Append(toasts, Toast("error", "Error", <<errorMsg>>))

\* page.tsx 164-169 and 185-187
ShowResult(resultSections, resultSummary, shown) ==
    /\ page' = showContentEffect(page,
                   [page EXCEPT !.walkthrough = resultSections,
                                !.repositorySummary = resultSummary,
                                !.isLoading = FALSE])
    /\ toasts' = toasts \o shown \o
           <<Toast("success", "Ready!", <<"Walkthrough generated successfully. Git ready!">>)>>

\* page.tsx 139-151 and 164-187: axios.post has settled
ReposAnswer ==
    /\ submission.pc = "repos"
    /\ \E answer \in AnalysisAnswers :
           LET response == analyzeRepository(answer)
           IN  /\ submission' = [submission EXCEPT !.pc = "idle", !.answer = answer]
               /\ IF ~response.ok THEN CatchError(response.message)
                  ELSE IF Prop(response.val, "sections").t = "arr"
                  THEN ShowResult(Prop(response.val, "sections").v,
                                  IF Truthy(Prop(response.val, "summary"))
                                  THEN Prop(response.val, "summary") ELSE Null,
                                  <<>>)
                  ELSE IF response.val.t = "arr"
                  THEN ShowResult(response.val.v, Null, <<>>)
                  ELSE CatchError("Unexpected API response format")
    /\ UNCHANGED <<rvars, fvars, other>>

\* page.tsx 152-187: the 500 ms of analyzeDocumentation have passed
DocsAnswer ==
    /\ submission.pc = "docs"
    /\ submission' = [submission EXCEPT !.pc = "idle"]
    /\ LET resultSections == analyzeDocumentation(submission.url)
       IN  ShowResult(resultSections, Null,
               IF /\ Len(resultSections) = 1
                  /\ Prop(resultSections[1], "title") = Text("Documentation Analysis Unavailable")
               THEN <<Toast("warning", "Documentation Analysis Disabled",
                            <<"The documentation analysis feature has been disabled. Please use GitHub repository analysis instead.">>)>>
               ELSE <<>>)
    /\ UNCHANGED <<rvars, fvars, other>>

ClientNext ==
    \/ OnInputChange
    \/ HandleSend
    \/ TransitionTimer
    \/ ContentTimer
    \/ Reload
    \/ ReposAnswer
    \/ DocsAnswer

SpecClient == ClientInit /\ [][ClientNext]_vars

\* the analysis call of the submission is in flight
InFlight == submission.pc \in {"repos", "docs"}

(***************************************************************************)
(* SpecClientFair: SpecClient with an analysis call that settles.  The     *)
(* promise of axios.post resolves or rejects, and the timer of 500 ms of   *)
(* analyzeDocumentation fires; the continuation of handleSubmit then runs. *)
(***************************************************************************)
SpecClientFair ==
    ClientInit /\ [][ClientNext]_vars /\ WF_vars(ReposAnswer) /\ WF_vars(DocsAnswer)

(***************************************************************************)
(* SpecClientCalls: SpecClient with calls of handleSubmit made while       *)
(* isLoading is true.  The form makes none (it is disabled while loading   *)
(* and leaves the screen with the first submission); the call is the one   *)
(* the guard of page.tsx 109 is written for.                               *)
(***************************************************************************)
\* page.tsx 106-109 and 185-187: the return at the guard is inside the try,
\* so the finally block runs
HandleSubmitWhileLoading ==
    /\ page.isLoading
    /\ page' = showContentEffect(page, [page EXCEPT !.isLoading = FALSE])
    /\ UNCHANGED <<toasts, submission, rvars, fvars, other>>

ClientCallsNext ==
    \/ OnInputChange
    \/ HandleSend
    \/ TransitionTimer
    \/ ContentTimer
    \/ Reload
    \/ ReposAnswer
    \/ DocsAnswer
    \/ HandleSubmitWhileLoading

SpecClientCalls == ClientInit /\ [][ClientCallsNext]_vars

(***************************************************************************)
(* SpecTwo: two requests handled by one server process.  JavaScript runs   *)
(* one handler at a time and changes handler at an await, so the two runs  *)
(* interleave step by step: Switch parks the locals of the running         *)
(* request and resumes the other one.                                      *)
(***************************************************************************)
\* the locals of the running request
Locals ==
    [pc |-> pc, body |-> body, repoInfo |-> repoInfo, calls |-> calls, branch |-> branch,
     allFiles |-> allFiles, filesToAnalyze |-> filesToAnalyze, fetch |-> fetch,
     failedContents |-> failedContents, fileContents |-> fileContents,
     validFiles |-> validFiles, totalTokens |-> totalTokens, modelReply |-> modelReply,
     modelText |-> modelText, resp |-> resp]

\* the locals of a request that has just arrived
NewRequest(requestBody) ==
    [pc |-> "start", body |-> requestBody, repoInfo |-> NoRepo, calls |-> <<>>,
     branch |-> "none", allFiles |-> <<>>, filesToAnalyze |-> <<>>, fetch |-> <<>>,
     failedContents |-> {}, fileContents |-> <<>>, validFiles |-> <<>>, totalTokens |-> 0,
     modelReply |-> [kind |-> "none"], modelText |-> <<>>, resp |-> NoResponse]

\* a slip: the variable is declared at module level, so the resumed handler
\* finds the value the other request left in it
moduleLevel(mine, theirs) == mine

\* lines 422 and 430: validFiles and totalTokens are declared with let inside
\* POST, so each call has its own and the resumed handler finds its own value
handlerLocal(mine, theirs) == theirs

\* the bodies of the two requests: the repository r, twice or with another
TwoBodies ==
    << Stringify(Obj([url |-> Str(Urls[1])])), Stringify(Obj([url |-> Str(Urls[2])])) >>

\* the answers of the model to the two requests
TwoTexts == {Stringify(PlainAnswers[11]), <<TokProse>>}

\* what the upstream services do in SpecTwo: the contents requests of one
\* request are answered in the order of the files (Spec has every order),
\* that of the first file may fail, no download fails, the model answers
\* with a text
Calm ==
    /\ failedContents \subseteq {1}
    /\ \A i, j \in 1..Len(fetch) : (i < j /\ fetch[j] # "contents") => fetch[i] # "contents"
    /\ \A i \in 1..Len(fetch) : fetch[i] # "rejected"
    /\ modelReply.kind \in {"none", "text"}
    /\ modelReply.kind = "text" => modelText \in TwoTexts

TwoInit ==
    /\ FunctionsOff
    /\ ClientOff
    /\ pc = "start"
    /\ body = TwoBodies[1]
    /\ repoInfo = NoRepo
    /\ calls = <<>>
    /\ branch = "none"
    /\ allFiles = <<>>
    /\ filesToAnalyze = <<>>
    /\ fetch = <<>>
    /\ failedContents = {}
    /\ fileContents = <<>>
    /\ validFiles = <<>>
    /\ totalTokens = 0
    /\ modelReply = [kind |-> "none"]
    /\ modelText = <<>>
    /\ resp = NoResponse
    /\ \E n \in 1..Len(TwoBodies) : other = NewRequest(TwoBodies[n])

\* the running handler has reached an await (or its end) and the event loop
\* resumes the other one
Switch ==
    /\ other # NoOther
    /\ other' = Locals
    /\ pc' = other.pc
    /\ body' = other.body
    /\ repoInfo' = other.repoInfo
    /\ calls' = other.calls
    /\ branch' = other.branch
    /\ allFiles' = other.allFiles
    /\ filesToAnalyze' = other.filesToAnalyze
    /\ fetch' = other.fetch
    /\ failedContents' = other.failedContents
    /\ fileContents' = other.fileContents
    /\ validFiles' = handlerLocal(validFiles, other.validFiles)
    /\ totalTokens' = handlerLocal(totalTokens, other.totalTokens)
    /\ modelReply' = other.modelReply
    /\ modelText' = other.modelText
    /\ resp' = other.resp
    /\ UNCHANGED <<fvars, cvars>>

TwoNext ==
    \/ ReceiveRequest /\ Calm'
    \/ TreeMainResponse /\ Calm'
    \/ TreeMasterResponse /\ Calm'
    \/ \E i \in 1..Len(fetch) : ContentsResponse(i) /\ Calm'
    \/ \E i \in 1..Len(fetch) : DownloadResponse(i) /\ Calm'
    \/ ModelResponse /\ Calm'
    \/ Switch

SpecTwo == TwoInit /\ [][TwoNext]_vars

(***************************************************************************)
(* Claims                                                                  *)
(***************************************************************************)
\* the lines of a text, as String.prototype.split('\n') gives them
LinesOf(code) == Split(code, NL)

\* 0-based indices of the lines of code that hold a non-white-space character
NonBlankIdx(code) ==
    {i \in 0..(Len(LinesOf(code)) - 1) :
        \E j \in 1..Len(LinesOf(code)[i + 1]) : LinesOf(code)[i + 1][j] \notin TrimChars}

\* 0-based index of the (k+1)-th non-blank line of code
NthNonBlank(code, k) ==
    CHOOSE i \in NonBlankIdx(code) : Cardinality({j \in NonBlankIdx(code) : j < i}) = k

\* a line without its blanks: equal for a line and its compressed form
NoBlanks(s) == SelectSeq(s, LAMBDA c : c \notin BlankChars)

\* the lines of a compressed text: none when the text is empty
CompressedLinesOf(compressed) ==
    IF compressed = <<>> THEN <<>> ELSE Split(compressed, NL)

LineMappingHolds(code, r) ==
    LET m == Cardinality(NonBlankIdx(code))
        cl == CompressedLinesOf(r.compressed)
    IN  /\ Len(cl) = m
        /\ DOMAIN r.lineMap = 0..(m - 1)
        /\ \A k \in 0..(m - 1) :
              /\ r.lineMap[k] = NthNonBlank(code, k)
              /\ r.lineMap[k] >= k
              /\ cl[k + 1] # <<>>
              /\ NoBlanks(Trim(cl[k + 1])) = NoBlanks(Trim(LinesOf(code)[r.lineMap[k] + 1]))
              /\ \A j \in 0..(k - 1) : r.lineMap[j] < r.lineMap[k]
        /\ (m = 0 => r.compressed = <<>> /\ r.lineMap = EmptyMap)

\* C1: the compressed lines of compressCodeWithLineMapping(code) are, one for
\* one and in order, the non-blank lines of code; lineMap has one entry per
\* compressed line, lineMap[k] is the 0-based original index of the k-th
\* non-blank line (strictly increasing, lineMap[k] >= k); a text of blank lines
\* only compresses to the empty text with an empty lineMap.
C1_LineMapping ==
    fn = "compressCodeWithLineMapping" => LineMappingHolds(fin, fout)

\* a text with a blank line between two non-blank lines has been compressed,
\* and so has a text of blank lines only
C1_Witness ==
    /\ fn = "compressCodeWithLineMapping"
    /\ fin = <<"a", "\n", " ", "\n", "a">>
    /\ DOMAIN fout.lineMap = {0, 1}
    /\ fout.lineMap[1] = 2

\* ---- reading a JSON value as a list of sections ----
SectionsOf(v) == IF v.t = "arr" THEN v.v ELSE <<>>

CodeOf(section) ==
    IF section.t = "obj" /\ Prop(section, "code").t = "arr"
    THEN Prop(section, "code").v ELSE <<>>

AnnotationsOf(item) ==
    IF item.t = "obj" /\ Prop(item, "annotations").t = "arr"
    THEN Prop(item, "annotations").v ELSE <<>>

\* a code item matched to an analyzed file carries the content of the file
IsMatched(item) == item.t = "obj" /\ Prop(item, "content").t = "str"

IsErrorBody(b) ==
    /\ b.t = "obj"
    /\ DOMAIN b.v = {"error"}
    /\ b.v.error.t = "text"

ErrorResponse(status, message) ==
    /\ resp.status = status
    /\ IsErrorBody(resp.body)
    /\ resp.body.v.error.v = message

CallsTo(api) == {n \in 1..Len(calls) : calls[n].api = api}

\* the model has answered with a text
Answered == pc = "done" /\ modelReply.kind = "text"

\* C2: an annotation the model returns for an analyzed file with line n, the
\* 1-based position of a line of the compressed text, carries in the response
\* the 1-based number, in the original content, of the n-th non-blank line.
C2_LineRemapping ==
    (Answered /\ resp.status = 200 /\ JSONParse(modelText).ok) =>
        LET answer == SectionsOf(JSONParse(modelText).val)
            sections == SectionsOf(resp.body)
        IN  \A i \in 1..Len(answer) : i <= Len(sections) =>
            \A j \in 1..Len(CodeOf(answer[i])) :
                (j <= Len(CodeOf(sections[i])) /\ IsMatched(CodeOf(sections[i])[j])) =>
                LET asked == AnnotationsOf(CodeOf(answer[i])[j])
                    given == AnnotationsOf(CodeOf(sections[i])[j])
                    content == Prop(CodeOf(sections[i])[j], "content").v
                IN  \A k \in 1..Len(asked) :
                        LET n == Prop(asked[k], "line")
                        IN  (/\ k <= Len(given)
                             /\ n.t = "num"
                             /\ 1 <= n.v
                             /\ n.v <= Cardinality(NonBlankIdx(content))) =>
                            /\ Prop(given[k], "line").t = "num"
                            /\ Prop(given[k], "line").v = NthNonBlank(content, n.v - 1) + 1

\* C3: in a success response every annotation of a code item matched to an
\* analyzed file has a line number between 1 and the number of lines of the
\* returned content of the item.
C3_AnnotationBounds ==
    (pc = "done" /\ resp.status = 200) =>
        \A i \in 1..Len(SectionsOf(resp.body)) :
        \A j \in 1..Len(CodeOf(SectionsOf(resp.body)[i])) :
            LET item == CodeOf(SectionsOf(resp.body)[i])[j]
            IN  IsMatched(item) =>
                \A k \in 1..Len(AnnotationsOf(item)) :
                    LET line == Prop(AnnotationsOf(item)[k], "line")
                    IN  /\ line.t = "num"
                        /\ 1 <= line.v
                        /\ line.v <= Len(LinesOf(Prop(item, "content").v))

\* C4: every response is either a success response whose body is an array,
\* or a response of status >= 400 whose body is an object {error: string}.
C4_ResponseShape ==
    resp.status # 0 =>
        \/ resp.status \in 200..299 /\ resp.body.t = "arr"
        \/ resp.status >= 400 /\ IsErrorBody(resp.body)

\* the model has answered a JSON number between prose, which the extraction
\* fallback does not find, and the route has answered
C4_Witness ==
    /\ Answered
    /\ modelText = <<TokProse>> \o Stringify(Num(5)) \o <<TokProse>>
    /\ resp.status = 200
    /\ resp.body.t = "arr"

\* the text parses as JSON neither directly nor through the extraction of the
\* text between the first '[' and the last ']'
Unparsable(text) == ~JSONParse(text).ok /\ ~extractJson(text).ok

\* C5, as stated: an unparsable model answer is returned as {error: string}
\* with an error status.
C5_UnparsableIsError ==
    (Answered /\ Unparsable(modelText)) =>
        resp.status >= 400 /\ IsErrorBody(resp.body)

\* C5, as the route behaves: an unparsable model answer is returned with
\* status 200 as an array of the one section titled "Parsing Error", whose
\* code is null.
C5_UnparsableIsParsingErrorSection ==
    (Answered /\ Unparsable(modelText)) =>
        /\ resp.status = 200
        /\ resp.body.t = "arr"
        /\ Len(resp.body.v) = 1
        /\ resp.body.v[1].t = "obj"
        /\ DOMAIN resp.body.v[1].v = {"title", "content", "code"}
        /\ resp.body.v[1].v.title = Text("Parsing Error")
        /\ resp.body.v[1].v.content.t = "text"
        /\ resp.body.v[1].v.code = Null

\* the model's answer was cut short inside its array and the route has answered
C5_Witness ==
    /\ Answered
    /\ Len(modelText) > 1
    /\ modelText[1] = TokOpenArr
    /\ Unparsable(modelText)
    /\ resp.status = 200

\* ---- the request body ----
\* the request bodies of this world, each with its parse (line 381); the
\* table is computed once
ParsedBodiesOfWorld ==
    [b \in {RequestBodies[i] : i \in 1..Len(RequestBodies)} |-> JSONParse(b)]

\* line 381 for the body of the request
parsedBody ==
    IF body \in DOMAIN ParsedBodiesOfWorld THEN ParsedBodiesOfWorld[body]
    ELSE JSONParse(body)

BodyIsObject == parsedBody.ok /\ parsedBody.val.t = "obj"
UrlOfBody == Prop(parsedBody.val, "url")

\* the handler ended at its first step, before any outbound request
EndedWithoutCalls == calls = <<>> /\ pc \in {"start", "done"}

\* C6: a request whose JSON body has no url (absent, null, empty string) is
\* answered with status 400 and {error: 'URL is required'}, and no outbound
\* call is made.
C6_MissingUrl ==
    (/\ BodyIsObject
     /\ \/ UrlOfBody.t \in {"undefined", "null"}
        \/ UrlOfBody.t = "str" /\ UrlOfBody.v = <<>>) =>
        /\ EndedWithoutCalls
        /\ pc = "done" => ErrorResponse(400, "URL is required")

\* a request with the empty string as url has been answered
C6_Witness ==
    /\ BodyIsObject
    /\ UrlOfBody.t = "str"
    /\ UrlOfBody.v = <<>>
    /\ pc = "done"
    /\ resp.status = 400

\* the url is no URL, or its hostname lacks 'github.com', or its path has
\* fewer than two non-empty segments
InvalidUrl(u) ==
    LET parsed == URLParse(u)
        segments == Split(parsed.pathname, "/")
    IN  \/ ~parsed.ok
        \/ ~Includes(parsed.hostname, <<"g", "i", "t", "h", "u", "b", ".", "c", "o", "m">>)
        \/ Cardinality({n \in 1..Len(segments) : segments[n] # <<>>}) < 2

\* the urls of this world and those of them that are invalid, computed once
UrlsOfWorld == {Urls[i] : i \in 1..Len(Urls)}
InvalidUrlsOfWorld == {u \in UrlsOfWorld : InvalidUrl(u)}

urlIsInvalid(u) ==
    IF u \in UrlsOfWorld THEN u \in InvalidUrlsOfWorld ELSE InvalidUrl(u)

\* C7: a submitted url that cannot be parsed, or whose hostname does not
\* contain 'github.com', or whose path has fewer than two non-empty segments
\* is answered with {error: 'Invalid GitHub URL'} and an error status, and
\* no GitHub or model call is made.
C7_InvalidUrl ==
    (BodyIsObject /\ Truthy(UrlOfBody) /\ urlIsInvalid(ToStr(UrlOfBody))) =>
        /\ EndedWithoutCalls
        /\ pc = "done" =>
              /\ resp.status >= 400
              /\ IsErrorBody(resp.body)
              /\ resp.body.v.error.v = "Invalid GitHub URL"

\* a request with a well-formed url of another host has been answered
C7_Witness ==
    /\ BodyIsObject
    /\ UrlOfBody.t = "str"
    /\ URLParse(UrlOfBody.v).ok
    /\ Len(NonEmptyParts(URLParse(UrlOfBody.v).pathname, "/")) >= 2
    /\ ~Includes(URLParse(UrlOfBody.v).hostname, GitHubHost)
    /\ pc = "done"
    /\ resp.status = 500

\* C8: when the tree yields fewer than 3 files after filterImportantFiles the
\* route answers status 400 with an {error} body, and neither a file content
\* request nor the model call is made.
C8_InsufficientFiles ==
    (branch \in {"main", "master"} /\ Len(importantFilesOf(allFiles)) < 3) =>
        /\ pc = "done"
        /\ resp.status = 400
        /\ IsErrorBody(resp.body)
        /\ CallsTo("contents") = {}
        /\ CallsTo("download") = {}
        /\ CallsTo("model") = {}

\* the tree was listed on master and two of its four blobs are important
C8_Witness ==
    /\ branch = "master"
    /\ Len(allFiles) = 4
    /\ Len(importantFilesOf(allFiles)) = 2
    /\ pc = "done"
    /\ resp.status = 400

\* C9: when the tree request fails for main and for master the route answers
\* status 500 with {error: 'Failed to fetch repository structure'} and the
\* model is never called; when the model call throws the route answers status
\* 500 with the thrown message as error.
C9_UpstreamFailure ==
    /\ branch = "failed" =>
          /\ pc = "done"
          /\ ErrorResponse(500, "Failed to fetch repository structure")
          /\ CallsTo("model") = {}
    /\ modelReply.kind = "throw" =>
          /\ pc = "done"
          /\ ErrorResponse(500, modelReply.message)

\* both tree requests of a request have failed
C9_Witness ==
    /\ branch = "failed"
    /\ Len(calls) = 2
    /\ calls[1].branch = "main"
    /\ calls[2].branch = "master"
    /\ resp.status = 500

\* C10, as stated: when the content fetch of a selected file fails, the
\* request fails with {error: string} and an error status.
C10_AnyFetchFailureFails ==
    (/\ pc = "done"
     /\ \/ failedContents # {}
        \/ \E i \in 1..Len(fetch) : fetch[i] = "rejected") =>
        resp.status >= 400 /\ IsErrorBody(resp.body)

\* C10, as the route behaves: a failed contents request gives the file the
\* content '' and the file is left out of the analysis, which goes on with the
\* other files (the model is called once every fetch has settled); the
\* request fails during the fetches only when a download_url request fails.
C10_FailedContentsIsDropped ==
    /\ \A i \in failedContents :
          /\ fetch[i] = "done"
          /\ fileContents[i].content = <<>>
    /\ (failedContents # {} /\ \A i \in 1..Len(fetch) : fetch[i] = "done") =>
          /\ pc \in {"model", "done"}
          /\ Cardinality(CallsTo("model")) = 1
          /\ \A n \in CallsTo("model") :
                /\ \A i \in failedContents, m \in 1..Len(calls[n].files) :
                      calls[n].files[m].path # filesToAnalyze[i]
                /\ \A i \in 1..Len(fetch) :
                      (i \notin failedContents /\ fileContents[i].content # <<>>) =>
                          \E m \in 1..Len(calls[n].files) :
                              calls[n].files[m].path = filesToAnalyze[i]
    /\ (pc = "done" /\ filesToAnalyze # <<>> /\ modelReply.kind = "none") =>
          /\ resp.status = 500
          /\ \E i \in 1..Len(fetch) : fetch[i] = "rejected" /\ i \notin failedContents

\* the contents requests of two files have failed and the analysis of the
\* other files has been returned
C10_Witness ==
    /\ Cardinality(failedContents) = 2
    /\ Answered
    /\ resp.status = 200
    /\ Len(validFiles) = 2
    /\ \E i \in 1..Len(SectionsOf(resp.body)) :
       \E j \in 1..Len(CodeOf(SectionsOf(resp.body)[i])) :
          IsMatched(CodeOf(SectionsOf(resp.body)[i])[j])

\* the positions in calls of the GitHub requests
GitHubCalls == CallsTo("tree") \cup CallsTo("contents") \cup CallsTo("download")

\* C11: within one request the steps come in the order tree listing, file
\* filtering, content fetch and compression, model call, JSON parse, line
\* remapping; the model is called at most once, only after every content
\* fetch has settled, and no GitHub request is issued after the model call.
C11_PipelineOrder ==
    /\ \A t \in CallsTo("tree"), c \in CallsTo("contents") : t < c
    /\ \A c \in CallsTo("contents"), d \in CallsTo("download") : c < d
    \* contents are requested for the filtered listing only
    /\ CallsTo("contents") # {} =>
          /\ branch \in {"main", "master"}
          /\ Cardinality(CallsTo("contents")) = Len(filesToAnalyze)
          /\ LET important == importantFilesOf(allFiles)
             IN  /\ Len(filesToAnalyze) <= Len(important)
                 /\ filesToAnalyze = SubSeq(important, 1, Len(filesToAnalyze))
    /\ Cardinality(CallsTo("model")) <= 1
    /\ \A m \in CallsTo("model") :
          /\ \A g \in GitHubCalls : g < m
          /\ \A i \in 1..Len(fetch) : fetch[i] = "done"
          /\ Len(fetch) = Len(filesToAnalyze)
          /\ CallsTo("contents") # {}
          \* the prompt holds the compressed text of fetched files
          /\ \A k \in 1..Len(calls[m].files) :
                \E i \in 1..Len(fileContents) :
                    /\ fileContents[i].path = calls[m].files[k].path
                    /\ fileContents[i].compressed = calls[m].files[k].compressed
    \* the answer of the model is parsed and remapped after the model call
    /\ modelReply.kind # "none" => CallsTo("model") # {}
    /\ (pc = "done" /\ resp.status = 200) => modelReply.kind = "text"

\* a request went through every step: the tree, five contents requests, two
\* downloads, the model call, and a response with a matched code item
C11_Witness ==
    /\ pc = "done"
    /\ resp.status = 200
    /\ Cardinality(CallsTo("contents")) = 5
    /\ Cardinality(CallsTo("download")) = 2
    /\ CallsTo("model") = {Len(calls)}
    /\ \E i \in 1..Len(SectionsOf(resp.body)) :
       \E j \in 1..Len(CodeOf(SectionsOf(resp.body)[i])) :
          /\ IsMatched(CodeOf(SectionsOf(resp.body)[i])[j])
          /\ AnnotationsOf(CodeOf(SectionsOf(resp.body)[i])[j]) # <<>>

\* ---- the response as a function of what a request received ----
\* l holds the body of a request and the answers of the upstream services to
\* it: the branch that listed, the contents requests that failed, the fetches
\* that rejected, the reply of the model

\* the files selected for the repository the body names
ExpectedFiles(l) ==
    LET important ==
            importantFilesOf(blobPaths(TreeOf(firstStep(l.body).info.repo)))
    IN  SubSeq(important, 1, IF Len(important) < 7 THEN Len(important) ELSE 7)

\* the entry of every selected file, with the file's own content
ExpectedEntries(l) ==
    [i \in 1..Len(ExpectedFiles(l)) |->
        FileEntry(ExpectedFiles(l)[i],
                  IF i \in l.failedContents THEN <<>>
                  ELSE BlobOf(ExpectedFiles(l)[i]).content)]

ExpectedResponse(l) ==
    IF firstStep(l.body).done THEN firstStep(l.body).resp
    ELSE IF l.branch = "failed"
    THEN Response(500, ErrorBody("Failed to fetch repository structure"))
    ELSE IF Len(importantFilesOf(blobPaths(TreeOf(firstStep(l.body).info.repo)))) < 3
    THEN Response(400, ErrorBody(
             "Repository must have at least 3 important code files for analysis"))
    ELSE IF l.modelReply.kind = "throw"
    THEN Response(500, ErrorBody(l.modelReply.message))
    ELSE IF l.modelReply.kind = "nontext"
    THEN Response(500, ErrorBody("Unexpected response format from Claude"))
    ELSE respondToText(SelectSeq(ExpectedEntries(l), LAMBDA file : file.content # <<>>),
                       l.modelText)

Rejected == {i \in 1..Len(fetch) : fetch[i] = "rejected"}

\* the contents requests are one block of the log, one per file and in the
\* order of the files: all are issued before the first is answered
IssuedTogether ==
    \A c \in CallsTo("contents") :
        LET first == CHOOSE n \in CallsTo("contents") : \A m \in CallsTo("contents") : n <= m
        IN  /\ c - first + 1 <= Len(filesToAnalyze)
            /\ calls[c].path = filesToAnalyze[c - first + 1]

\* the blobs of this world, each with the entry of lines 410-417 for its
\* content, computed once
OwnEntriesOfWorld ==
    [path \in {Blobs[i].path : i \in 1..Len(Blobs)} |->
        FileEntry(path, BlobOf(path).content)]

\* the entry of a file: without content when its contents request failed
ownEntry(path, failed) ==
    IF failed THEN FileEntry(path, <<>>)
    ELSE IF path \in DOMAIN OwnEntriesOfWorld THEN OwnEntriesOfWorld[path]
    ELSE FileEntry(path, BlobOf(path).content)

\* every entry returned pairs the path of its file with the content,
\* compressed text and line map of that file
EntriesAreOwn ==
    /\ Len(fileContents) = Len(filesToAnalyze)
    /\ \A i \in 1..Len(fetch) :
          /\ fileContents[i].path = filesToAnalyze[i]
          /\ fetch[i] = "done" =>
                fileContents[i] = ownEntry(filesToAnalyze[i], i \in failedContents)

\* the files of the prompt are the entries with a content, in their order,
\* and the answer to a text of the model is computed from them
AnswerFromEntries ==
    CallsTo("model") # {} =>
        /\ Rejected = {}
        /\ validFiles = SelectSeq(fileContents, LAMBDA file : file.content # <<>>)
        /\ Answered => resp = respondToText(validFiles, modelText)

\* C12, as stated: the content fetches are issued concurrently, every entry
\* pairs a path with its own content, compressed text and line map, the
\* entries are in the order of the filtered listing, and the response does
\* not depend on which fetch finishes first.  Were the response the same for
\* every order, it would be the response of the order in which fetch i is the
\* first to reject, for every fetch i that rejects.
C12_AnyOrderSameResponse ==
    /\ IssuedTogether
    /\ EntriesAreOwn
    /\ AnswerFromEntries
    /\ \A i \in Rejected :
          pc = "done" /\ ErrorResponse(500, BlobOf(filesToAnalyze[i]).error)

\* C12, as the route behaves: as stated when no fetch rejects; when a
\* download_url request fails the response is the error of a failed download,
\* the first of them to fail.
C12_FetchOrder ==
    /\ IssuedTogether
    /\ EntriesAreOwn
    /\ AnswerFromEntries
    /\ Rejected # {} =>
          /\ pc = "done"
          /\ \E i \in Rejected : ErrorResponse(500, BlobOf(filesToAnalyze[i]).error)

\* the contents request of the fifth file was answered before that of the
\* third one (the download of d.go was requested before that of b.js), and
\* the files of the prompt are in the order of the listing
C12_Witness ==
    /\ pc = "done"
    /\ resp.status = 200
    /\ Len(validFiles) = 4
    /\ validFiles[3].path = <<"b", ".", "j", "s">>
    /\ validFiles[4].path = <<"d", ".", "g", "o">>
    /\ \E n, m \in CallsTo("download") :
          /\ n < m
          /\ calls[n].path = <<"d", ".", "g", "o">>
          /\ calls[m].path = <<"b", ".", "j", "s">>

\* C13: handling a request writes no module-level state: of two requests
\* handled concurrently, in every interleaving, each gets the response that
\* its own url and the upstream answers to its own calls determine.
C13_RequestIsolation ==
    /\ pc = "done" => resp = ExpectedResponse(Locals)
    /\ (other # NoOther /\ other.pc = "done") => other.resp = ExpectedResponse(other)

\* the response of one request was returned while the other one was waiting
\* for its files, and the two requests got different files
C13_Witness ==
    /\ other # NoOther
    /\ other.pc = "fetching"
    /\ other.failedContents = {1}
    /\ pc = "done"
    /\ resp.status = 200
    /\ Len(validFiles) = 4

\* the text of a path from its last '.', the whole path when it has none
FromLastDot(path) ==
    LET dots == {i \in 1..Len(path) : path[i] = "."}
    IN  IF dots = {} THEN path
        ELSE SubSeq(path, CHOOSE i \in dots : \A j \in dots : j <= i, Len(path))

\* the lower-cased extension is in the list and the lower-cased path holds
\* none of the exclude patterns
IsImportant(path) ==
    /\ \E n \in 1..Len(importantExtensions) :
          ToLowerCase(FromLastDot(path)) = importantExtensions[n]
    /\ \A n \in 1..Len(excludePatterns) :
          LET p == excludePatterns[n]
          IN  \A i \in 0..(Len(path) - Len(p)) :
                  ToLowerCase(SubSeq(path, i + 1, i + Len(p))) # p

\* C14: filterImportantFiles returns exactly the input paths, in input order
\* and unaltered, whose lower-cased extension is in the extension list and
\* whose lower-cased path holds no exclude pattern; applied to its own
\* result it returns that result.
C14_FileFilter ==
    fn \in {"filterImportantFiles", "filterImportantFiles twice"} =>
        fout = SelectSeq(fin, IsImportant)

\* a list with an upper-case path twice around an excluded one was filtered,
\* and the result was filtered again
C14_Witness ==
    /\ fn = "filterImportantFiles twice"
    /\ fin = <<<<"A", ".", "T", "S">>, <<"l", "a", "t", "e", "s", "t", ".", "p", "y">>,
               <<"A", ".", "T", "S">>>>
    /\ fout = <<<<"A", ".", "T", "S">>, <<"A", ".", "T", "S">>>>

\* the non-empty segments of the path of a url that parses
PathSegments(u) ==
    LET all == Split(URLParse(u).pathname, "/")
    IN  SelectSeq(all, LAMBDA segment : Len(segment) > 0)

\* the valid urls of this world, each with its non-empty path segments and
\* with what extractRepoInfo returns for it, computed once
PathSegmentsOfWorld ==
    [u \in UrlsOfWorld \ InvalidUrlsOfWorld |-> PathSegments(u)]
RepoInfoOfWorld ==
    [u \in UrlsOfWorld \ InvalidUrlsOfWorld |-> extractRepoInfo(u)]

pathSegmentsOf(u) ==
    IF u \in DOMAIN PathSegmentsOfWorld THEN PathSegmentsOfWorld[u] ELSE PathSegments(u)

repoInfoOf(u) ==
    IF u \in DOMAIN RepoInfoOfWorld THEN RepoInfoOfWorld[u] ELSE extractRepoInfo(u)

\* C15: for a url that parses, whose hostname contains 'github.com' and whose
\* path has at least two non-empty segments, extractRepoInfo returns the
\* first segment as owner and the second as repo, whatever follows them, and
\* the GitHub requests of the request use that owner and that repo.
C15_UrlParsing ==
    (BodyIsObject /\ Truthy(UrlOfBody) /\ ~urlIsInvalid(ToStr(UrlOfBody))) =>
        LET segments == pathSegmentsOf(ToStr(UrlOfBody))
            info == repoInfoOf(ToStr(UrlOfBody))
            first == segments[1]
            second == segments[2]
        IN  /\ info.ok
            /\ info.owner = first
            /\ info.repo = second
            /\ pc # "start" =>
                  /\ CallsTo("tree") # {}
                  /\ \A n \in CallsTo("tree") \cup CallsTo("contents") :
                        /\ calls[n].owner = first
                        /\ calls[n].repo = second

\* a url with further segments, a query and a fragment was submitted and the
\* files of o/r were requested
C15_Witness ==
    /\ BodyIsObject
    /\ UrlOfBody.t = "str"
    /\ Len(PathSegments(UrlOfBody.v)) = 4
    /\ Includes(UrlOfBody.v, <<"?">>)
    /\ Includes(UrlOfBody.v, <<"#">>)
    /\ CallsTo("contents") # {}
    /\ \A n \in CallsTo("contents") : calls[n].owner = <<"o">> /\ calls[n].repo = <<"r">>

\* C20: the model is called only with the content of at least 3 files: every
\* model request of the log carries at least MinImportantFiles files in its
\* prompt.
C20_MinimumFilesReachModel ==
    \A m \in CallsTo("model") : Len(calls[m].files) >= MinImportantFiles

RECURSIVE SumOf(_)
SumOf(counts) == IF counts = <<>> THEN 0 ELSE counts[1].tokens + SumOf(Tail(counts))

\* C19: after the budgeting step the estimated token counts of the files
\* placed in the prompt, ceil(length of compressed text / 4) each, sum to at
\* most MAX_AVAILABLE_TOKENS = 180000.
C19_TokenBudget ==
    fn = "applyTokenBudget" => SumOf(fout.validFiles) <= MAX_AVAILABLE_TOKENS

\* C18: in the graph CodeWalkthroughFlow builds, an edge from file node A to
\* file node B is present only if the content of A imports B by the
\* import-line heuristic; two files without an import relationship have no
\* edge.
C18_EdgesAreImports ==
    fn = "CodeWalkthroughFlow" =>
        \A k \in 1..Len(fout.edges) :
            hasImport(SampleOf(fin)[fout.edges[k].source + 1],
                      SampleOf(fin)[fout.edges[k].target + 1])

\* the submission has ended and the endpoint had answered it with an error
\* status and a body {error: msg}
EndedWithServerError ==
    /\ submission.pc = "idle"
    /\ submission.answer.kind = "response"
    /\ submission.answer.status # 200
    /\ IsErrorBody(submission.answer.data)

ToastsOfSubmission == {k \in 1..Len(toasts) : toasts[k].n = submission.n}

\* C16: when the analysis endpoint answers with an error status and body
\* {error: msg}, the page ends the submission with error = msg, isLoading
\* false and an empty walkthrough; the submission shows an error toast with
\* msg and no 'Ready!' toast.
C16_ClientSurfacesErrors ==
    EndedWithServerError =>
        LET msg == submission.answer.data.v.error.v
        IN  /\ page.error = Text(msg)
            /\ ~page.isLoading
            /\ page.walkthrough = <<>>
            /\ page.repositorySummary = Null
            /\ \E k \in ToastsOfSubmission :
                   /\ toasts[k].kind = "error"
                   /\ toasts[k].description = <<msg>>
            /\ \A k \in ToastsOfSubmission : toasts[k].title # "Ready!"

\* a second submission ended with the error of a 500 response after a first
\* one had shown its walkthrough
C16_Witness ==
    /\ EndedWithServerError
    /\ submission.n = 2
    /\ submission.answer.status = 500
    /\ \E k \in 1..Len(toasts) : toasts[k].n = 1 /\ toasts[k].title = "Ready!"

\* C17: when a submission classified as 'docs' has ended, the client has
\* requested an analysis of that url and the walkthrough shown is the result
\* of that analysis, not a notice.
C17_DocumentationAnalysis ==
    (submission.pc = "idle" /\ submission.type = "docs") =>
        /\ \E k \in 1..Len(submission.posts) : submission.posts[k].url = submission.url
        /\ page.walkthrough # <<demoSection>>

\* C21: a code item of the response whose filename equals the path of an
\* analyzed file carries the content of that file, also when the path of
\* another analyzed file ends with the filename.
C21_ExactMatchWins ==
    (Answered /\ resp.status = 200) =>
        LET sections == SectionsOf(resp.body)
        IN  \A i \in 1..Len(sections) :
            \A j \in 1..Len(CodeOf(sections[i])) :
            \A f \in 1..Len(validFiles) :
                LET item == CodeOf(sections[i])[j]
                IN  (item.t = "obj" /\ Prop(item, "filename") = Str(validFiles[f].path)) =>
                        Prop(item, "content") = Str(validFiles[f].content)

InBudgetLoop == fn \in {"token budget: loop", "token budget: done"}

\* C22: over the budget, files are removed one at a time, the smallest
\* remaining file first; a file is removed only while the total is over the
\* budget and more than 3 files remain, and the step ends within the budget
\* or at 3 files; a list of at least 3 files keeps at least 3, and nothing is
\* removed from a list of 3 or fewer.
C22_RemovalOrderAndFloor ==
    InBudgetLoop =>
        LET kept == fout.validFiles
            removed == fout.removed
        IN  /\ Len(fout.initial) = Len(kept) + Len(removed)
            /\ Range(fout.initial) = Range(kept) \cup Range(removed)
            /\ \A i \in 1..Len(removed) : \A j \in 1..Len(removed) :
                   i < j => removed[i].tokens <= removed[j].tokens
            /\ \A i \in 1..Len(removed) : \A j \in 1..Len(kept) :
                   removed[i].tokens <= kept[j].tokens
            /\ removed # <<>> =>
                   /\ SumOf(kept) + removed[Len(removed)].tokens > MAX_AVAILABLE_TOKENS
                   /\ Len(kept) + 1 > 3
            /\ fn = "token budget: done" =>
                   SumOf(kept) <= MAX_AVAILABLE_TOKENS \/ Len(kept) <= 3
            /\ Len(fout.initial) >= 3 => Len(kept) >= 3
            /\ Len(fout.initial) <= 3 => removed = <<>>

\* the step ended within the budget with more than 3 files, after a removal
C22_Witness ==
    /\ fn = "token budget: done"
    /\ Len(fout.removed) >= 1
    /\ Len(fout.validFiles) > 3
    /\ \E j \in 1..Len(fout.validFiles) :
           fout.removed[1].tokens < fout.validFiles[j].tokens

\* C23: before and after every iteration of the removal loop totalTokens is
\* the sum of countTokens(compressed) over the files in validFiles, and the
\* loop makes at most (initial file count - 3) removals: after that many its
\* condition is false.
C23_BudgetAccounting ==
    InBudgetLoop =>
        /\ fout.totalTokens = SumOf(fout.validFiles)
        /\ fout.removed # <<>> => Len(fout.removed) <= Len(fout.initial) - 3
        /\ Len(fout.removed) >= Len(fout.initial) - 3 =>
               ~loopContinues(fout.validFiles, fout.totalTokens)

\* two files were removed and the loop stopped at 3 files, over the budget
C23_Witness ==
    /\ fn = "token budget: done"
    /\ Len(fout.removed) = 2
    /\ Len(fout.validFiles) = 3
    /\ fout.totalTokens > MAX_AVAILABLE_TOKENS

TreeCallsFor(br) == {n \in CallsTo("tree") : calls[n].branch = br}

\* C24: the tree is requested for 'main' first; 'master' is requested at most
\* once, after the request for 'main', and only when that request has
\* failed; the listing holds only paths of blobs of the tree that contain
\* neither 'node_modules/' nor '.git/'.
C24_BranchFallback ==
    /\ Cardinality(TreeCallsFor("main")) <= 1
    /\ Cardinality(TreeCallsFor("master")) <= 1
    /\ CallsTo("tree") = TreeCallsFor("main") \cup TreeCallsFor("master")
    /\ \A n \in TreeCallsFor("master") : \E m \in TreeCallsFor("main") : m < n
    /\ TreeCallsFor("master") # {} => branch # "main"
    /\ branch = "main" => TreeCallsFor("master") = {}
    /\ branch = "master" => TreeCallsFor("master") # {}
    /\ \A i \in 1..Len(allFiles) :
           /\ \E k \in 1..Len(TreeOf(repoInfo.repo)) :
                  /\ TreeOf(repoInfo.repo)[k].path = allFiles[i]
                  /\ TreeOf(repoInfo.repo)[k].type = "blob"
           /\ ~Includes(allFiles[i], <<"n", "o", "d", "e", "_", "m", "o", "d", "u", "l", "e", "s", "/">>)
           /\ ~Includes(allFiles[i], <<".", "g", "i", "t", "/">>)

\* the request for main failed and the listing of o/r came from master
C24_Witness ==
    /\ branch = "master"
    /\ Cardinality(CallsTo("tree")) = 2
    /\ repoInfo.repo = RepoR
    /\ Len(allFiles) = 7

\* the paths of the contents requests, in the order of the requests
ContentsPaths ==
    LET log == SelectSeq(calls, LAMBDA c : c.api = "contents")
    IN  [i \in 1..Len(log) |-> log[i].path]

\* C25: at most 7 contents requests are issued for a request, for the first
\* 7 paths of the filtered listing in the order of the listing, each file is
\* downloaded at most once, and a prompt holds at most 7 files.
C25_FileCap ==
    /\ Cardinality(CallsTo("contents")) <= MaxFilesToAnalyze
    /\ Cardinality(CallsTo("download")) <= Cardinality(CallsTo("contents"))
    /\ \A m \in CallsTo("model") : Len(calls[m].files) <= MaxFilesToAnalyze
    /\ CallsTo("contents") # {} =>
           LET important == importantFilesOf(allFiles)
               paths == ContentsPaths
           IN  /\ paths = SubSeq(important, 1, Len(paths))
               /\ Len(paths) < MaxFilesToAnalyze => Len(paths) = Len(important)
               /\ \A n \in CallsTo("download") : \E i \in 1..Len(paths) :
                      calls[n].path = paths[i]

\* o/b lists 9 important files: 7 were fetched and the prompt holds 7 files
C25_Witness ==
    /\ Len(importantFilesOf(allFiles)) = 9
    /\ Cardinality(CallsTo("contents")) = 7
    /\ \E m \in CallsTo("model") : Len(calls[m].files) = 7

\* the model's text is no JSON as a whole, and its part from the first '[' to
\* the last ']' is the JSON text of an array
ParsesOnlyAsSubstring ==
    /\ Answered
    /\ ~JSONParse(modelText).ok
    /\ extractJson(modelText).ok
    /\ extractJson(modelText).val.t = "arr"

\* C26: when the model's text is not JSON as a whole and its part from the
\* first '[' to the last ']' parses as an array, the response is the one the
\* direct path gives for the JSON text of that array and the same files.
C26_FallbackEquivalence ==
    (Answered /\ ~JSONParse(modelText).ok) =>
        LET extracted == extractJson(modelText)
            parsedJson == extracted.val
            direct == processResponse(validFiles, parsedJson)
        IN  (extracted.ok /\ parsedJson.t = "arr") =>
                /\ JSONParse(Stringify(parsedJson)) = Ok(parsedJson)
                /\ resp = respondToText(validFiles, Stringify(parsedJson))
                /\ direct.ok => resp = Response(200, direct.val)

\* an annotated item of an analyzed file came between prose and was given
\* the content of its file
C26_Witness ==
    /\ ParsesOnlyAsSubstring
    /\ resp.status = 200
    /\ \E i \in 1..Len(SectionsOf(resp.body)) :
       \E j \in 1..Len(CodeOf(SectionsOf(resp.body)[i])) :
           /\ IsMatched(CodeOf(SectionsOf(resp.body)[i])[j])
           /\ AnnotationsOf(CodeOf(SectionsOf(resp.body)[i])[j]) # <<>>

\* C27: a call of handleSubmit made while isLoading is true changes no page
\* state: as long as the analysis call of a submission is in flight,
\* isLoading stays true, whatever calls are made meanwhile.
C27_GuardedCallChangesNothing ==
    InFlight => page.isLoading

\* C28: a submission that passes the guard has isLoading true while its
\* analysis call is in flight, and when the call settles the submission ends
\* with isLoading false, whether the call resolved, rejected or returned an
\* unexpected format.
C28_LoadingEnds ==
    /\ [](InFlight => page.isLoading)
    /\ InFlight ~> (~InFlight /\ ~page.isLoading)

\* an answer of an unexpected format (status 200, body null) has ended the
\* submission with the error of page.tsx 149 and isLoading false
C28_Witness ==
    /\ submission.pc = "idle"
    /\ submission.answer = [kind |-> "response", status |-> 200, data |-> Null]
    /\ page.error = Text("Unexpected API response format")
    /\ ~page.isLoading

\* C29: a non-null error comes with an empty walkthrough and a non-empty
\* walkthrough with a null error, and the walkthrough is on the screen only
\* when isLoading is false, error is null, the walkthrough is not empty and
\* the first-query transition is over.
C29_ErrorWalkthroughExclusive ==
    /\ page.error # Null => page.walkthrough = <<>>
    /\ page.walkthrough # <<>> => page.error = Null
    /\ WalkthroughRendered =>
           /\ ~page.isLoading
           /\ page.error = Null
           /\ page.walkthrough # <<>>
           /\ page.hasSentFirstQuery
           /\ ~page.isTransitioning

\* the walkthrough of a second submission is on the screen
C29_Witness ==
    /\ WalkthroughRendered
    /\ submission.n = 2
    /\ submission.pc = "idle"

\* C30: when no request is in flight and no timer is pending, the form or
\* the button 'Search Another Repository' is on the screen and enabled.
C30_NoStuckPage ==
    (~page.isLoading /\ ~InFlight /\ ~page.transitionTimer /\ ~page.contentTimer) =>
        \/ FormRendered
        \/ ReloadRendered

=============================================================================
